---- MODULE Spec2Model ----
(***************************************************************************)
(* Invoice screening against the clean ledger (params_clean.csv):          *)
(* duplicationValidator.run_historical_checks and its helpers, the CSV     *)
(* store of csvUtils, and the batch loop of invoiceFraudDetector.main.     *)
(*                                                                         *)
(* Text is a sequence of one-character strings.  A Python value held in a  *)
(* parsed invoice or in a DataFrame cell is a record [k, s, n]: k is the   *)
(* Python type ("str", "int", "float", "nan", "none"), s the characters of *)
(* a str, n the number of an int or of a float.  Amounts are whole numbers *)
(* held as floats, so every comparison of ratios below is exact integer    *)
(* arithmetic on cross-multiplied terms.                                   *)
(***************************************************************************)
EXTENDS Integers, Sequences, FiniteSets, TLC

(***************************************************************************)
(* Python values                                                           *)
(***************************************************************************)
PyStr(chars) == [k |-> "str", s |-> chars, n |-> 0]
PyInt(i) == [k |-> "int", s |-> <<>>, n |-> i]
PyFloat(x) == [k |-> "float", s |-> <<>>, n |-> x]
PyNaN == [k |-> "nan", s |-> <<>>, n |-> 0]
PyNone == [k |-> "none", s |-> <<>>, n |-> 0]

\* isinstance(v, str)
IsStr(v) == v.k = "str"

\* The truth value Python gives v ("x or y", "if x", "not x").
Truthy(v) ==
  CASE v.k = "str" -> v.s # <<>>
    [] v.k = "none" -> FALSE
    [] v.k = "nan" -> TRUE
    [] OTHER -> v.n # 0

DigitChars == <<"0", "1", "2", "3", "4", "5", "6", "7", "8", "9">>

IsDigit(c) == \E d \in 1..10 : DigitChars[d] = c

DigitVal(c) == (CHOOSE d \in 1..10 : DigitChars[d] = c) - 1

RECURSIVE IntToStr(_)
\* str(i) of a non-negative int.
IntToStr(i) ==
  IF i < 10 THEN <<DigitChars[i + 1]>>
  ELSE IntToStr(i \div 10) \o <<DigitChars[(i % 10) + 1]>>

RECURSIVE StrToInt(_)
\* int(text) of a run of digits (leading zeros are dropped by the value).
StrToInt(chars) ==
  IF chars = <<>> THEN 0
  ELSE 10 * StrToInt(SubSeq(chars, 1, Len(chars) - 1)) + DigitVal(chars[Len(chars)])

AllDigits(chars) == chars # <<>> /\ \A i \in 1..Len(chars) : IsDigit(chars[i])

\* repr of a whole-number float: 100.0 -> "100.0"
FloatRepr(x) ==
  IF x < 0 THEN <<"-">> \o IntToStr(0 - x) \o <<".", "0">>
  ELSE IntToStr(x) \o <<".", "0">>

\* str(v), which is also what an f-string substitutes for v.
Format(v) ==
  CASE v.k = "str" -> v.s
    [] v.k = "int" -> IF v.n < 0 THEN <<"-">> \o IntToStr(0 - v.n) ELSE IntToStr(v.n)
    [] v.k = "float" -> FloatRepr(v.n)
    [] v.k = "nan" -> <<"n", "a", "n">>
    [] OTHER -> <<"N", "o", "n", "e">>

(***************************************************************************)
(* Normalization and text similarity                                       *)
(***************************************************************************)
UpperChars == <<"A", "B", "C", "D", "E", "F", "G", "H", "I", "J", "K", "L", "M",
                "N", "O", "P", "Q", "R", "S", "T", "U", "V", "W", "X", "Y", "Z">>

LowerChars == <<"a", "b", "c", "d", "e", "f", "g", "h", "i", "j", "k", "l", "m",
                "n", "o", "p", "q", "r", "s", "t", "u", "v", "w", "x", "y", "z">>

\* str.lower() on one character.
Lower(c) ==
  IF \E i \in 1..26 : UpperChars[i] = c
  THEN LowerChars[CHOOSE i \in 1..26 : UpperChars[i] = c]
  ELSE c

\* The character class [\s\-\_\,\.\'\/\\] of normalize_text's re.sub.
SeparatorChars == {" ", "-", "_", ",", ".", "'", "/", "\\"}

RECURSIVE StripSeparators(_)
StripSeparators(chars) ==
  IF chars = <<>> THEN <<>>
  ELSE (IF Lower(Head(chars)) \in SeparatorChars THEN <<>> ELSE <<Lower(Head(chars))>>)
       \o StripSeparators(Tail(chars))

\* normalize_text(s): str(s) when s is no str, lower-cased, separators removed.
normalize_text(v) == StripSeparators(Format(v))

\* Length of the common run of a from i and b from j, inside a[..ahi], b[..bhi].
RECURSIVE MatchLen(_, _, _, _, _, _)
MatchLen(a, i, ahi, b, j, bhi) ==
  IF i > ahi \/ j > bhi \/ a[i] # b[j] THEN 0
  ELSE 1 + MatchLen(a, i + 1, ahi, b, j + 1, bhi)

\* SequenceMatcher.find_longest_match(alo, ahi, blo, bhi) without junk: the
\* longest block, the one starting earliest in a, then earliest in b.
\* Bounds are 1-based and inclusive; <<alo, blo, 0>> when nothing matches.
LongestFirst(hits, alo, blo) ==
  IF hits = {} THEN <<alo, blo, 0>>
  ELSE CHOOSE x \in hits :
         \A y \in hits :
           \/ x[3] > y[3]
           \/ x[3] = y[3] /\ x[1] < y[1]
           \/ x[3] = y[3] /\ x[1] = y[1] /\ x[2] <= y[2]

find_longest_match(a, alo, ahi, b, blo, bhi) ==
  LongestFirst({x \in {<<i, j, MatchLen(a, i, ahi, b, j, bhi)>> : i \in alo..ahi, j \in blo..bhi} :
                  x[3] > 0}, alo, blo)

\* Sum of the sizes of SequenceMatcher.get_matching_blocks(): the longest
\* match, then recursively the pieces to its left and to its right.
RECURSIVE MatchingSize(_, _, _, _, _, _)
RECURSIVE MatchingAround(_, _, _, _, _, _, _)
MatchingSize(a, alo, ahi, b, blo, bhi) ==
  IF alo > ahi \/ blo > bhi THEN 0
  ELSE MatchingAround(find_longest_match(a, alo, ahi, b, blo, bhi), a, alo, ahi, b, blo, bhi)

\* The size of the match m plus the sizes matched on its two sides.
MatchingAround(m, a, alo, ahi, b, blo, bhi) ==
  IF m[3] = 0 THEN 0
  ELSE m[3] + MatchingSize(a, alo, m[1] - 1, b, blo, m[2] - 1)
            + MatchingSize(a, m[1] + m[3], ahi, b, m[2] + m[3], bhi)

\* SequenceMatcher(None, a, b).ratio() as the fraction num/den = 2M/T, and 1.0
\* when both are empty.
ratio(a, b) ==
  IF Len(a) + Len(b) = 0 THEN [num |-> 1, den |-> 1]
  ELSE [num |-> 2 * MatchingSize(a, 1, Len(a), b, 1, Len(b)), den |-> Len(a) + Len(b)]

\* text_similarity(a, b) = ratio of the normalized texts * 100, kept as the
\* fraction of ratio(); AtLeast(sim, t) is "sim >= t" for a percentage t.
text_similarity(a, b) == ratio(normalize_text(a), normalize_text(b))

AtLeast(sim, t) == 100 * sim.num >= t * sim.den

(***************************************************************************)
(* Dates                                                                   *)
(***************************************************************************)
\* chars.split(sep)
RECURSIVE Split(_, _)
Split(chars, sep) ==
  IF \A i \in 1..Len(chars) : chars[i] # sep THEN <<chars>>
  ELSE LET p == CHOOSE i \in 1..Len(chars) :
                  chars[i] = sep /\ \A j \in 1..(i - 1) : chars[j] # sep
       IN <<SubSeq(chars, 1, p - 1)>> \o Split(SubSeq(chars, p + 1, Len(chars)), sep)

IsLeap(y) == y % 4 = 0 /\ (y % 100 # 0 \/ y % 400 = 0)

DaysInMonth(y, m) ==
  IF m = 2 THEN (IF IsLeap(y) THEN 29 ELSE 28)
  ELSE IF m \in {4, 6, 9, 11} THEN 30 ELSE 31

\* "no datetime": parse_date's None.
NoDate == [y |-> 0, m |-> 0, d |-> 0]

\* strptime's %d and %m take one or two digits and no zero; %Y takes four.
\* datetime(y, m, d) then rejects a day the month does not have, and year 0.
datetime(y, m, d) ==
  IF y >= 1 /\ m \in 1..12 /\ d >= 1 /\ d <= DaysInMonth(y, m)
  THEN [y |-> y, m |-> m, d |-> d]
  ELSE NoDate

MakeDate(dd, mm, yyyy) ==
  IF /\ AllDigits(dd) /\ Len(dd) \in {1, 2}
     /\ AllDigits(mm) /\ Len(mm) \in {1, 2}
     /\ AllDigits(yyyy) /\ Len(yyyy) = 4
  THEN datetime(StrToInt(yyyy), StrToInt(mm), StrToInt(dd))
  ELSE NoDate

\* The three fields of a date text, in the order day, month, year.
DayMonthYear(parts, yearFirst) ==
  IF Len(parts) # 3 THEN <<>>
  ELSE IF yearFirst THEN <<parts[3], parts[2], parts[1]>>
  ELSE parts

\* datetime.strptime(s, "%d<sep>%m<sep>%Y"), or "%Y<sep>%m<sep>%d" when
\* yearFirst; iso is fromisoformat's demand of two digits for the month
\* and the day.
FromFields(f, iso) ==
  IF f = <<>> \/ (iso /\ (Len(f[1]) # 2 \/ Len(f[2]) # 2)) THEN NoDate
  ELSE MakeDate(f[1], f[2], f[3])

strptime(chars, fmt) == FromFields(DayMonthYear(Split(chars, fmt.sep), fmt.yearFirst), fmt.iso)

\* The formats parse_date tries, in its order: "%d-%m-%Y", "%d/%m/%Y",
\* "%Y-%m-%d", "%d.%m.%Y", then datetime.fromisoformat (YYYY-MM-DD, two
\* digits for the month and the day).
DateFormats ==
  <<[sep |-> "-", yearFirst |-> FALSE, iso |-> FALSE],
    [sep |-> "/", yearFirst |-> FALSE, iso |-> FALSE],
    [sep |-> "-", yearFirst |-> TRUE, iso |-> FALSE],
    [sep |-> ".", yearFirst |-> FALSE, iso |-> FALSE],
    [sep |-> "-", yearFirst |-> TRUE, iso |-> TRUE]>>

\* The first of the dates that is one.
FirstDate(dates) ==
  IF \A i \in DOMAIN dates : dates[i] = NoDate THEN NoDate
  ELSE dates[CHOOSE i \in DOMAIN dates :
               dates[i] # NoDate /\ \A j \in 1..(i - 1) : dates[j] = NoDate]

\* parse_date(s): None for a non-str, else the first format that parses.
parse_date(v) ==
  IF ~IsStr(v) THEN NoDate
  ELSE FirstDate([f \in DOMAIN DateFormats |-> strptime(v.s, DateFormats[f])])

\* Days since the civil epoch (the proleptic Gregorian day count datetime
\* subtraction works on).
DaysFromCivil(y, mp, d) ==
  (y \div 400) * 146097 + (y % 400) * 365 + (y % 400) \div 4 - (y % 400) \div 100
    + (153 * mp + 2) \div 5 + d - 1

DayNumber(dt) ==
  DaysFromCivil(IF dt.m <= 2 THEN dt.y - 1 ELSE dt.y,
                IF dt.m > 2 THEN dt.m - 3 ELSE dt.m + 9, dt.d)

\* (a - b).days for two parsed dates.
DaysBetween(a, b) == DayNumber(a) - DayNumber(b)

Abs(i) == IF i < 0 THEN -i ELSE i

\* np.nan as a day difference: no number of days is negative.
NaNDays == -1

\* date_diff_days(d1, d2)
DaysApart(da, db) ==
  IF da = NoDate \/ db = NoDate THEN NaNDays ELSE Abs(DaysBetween(da, db))

date_diff_days(d1, d2) == DaysApart(parse_date(d1), parse_date(d2))

(***************************************************************************)
(* Invoices                                                                *)
(*                                                                         *)
(* A parsed invoice (parsedData, new_invoice) and a ledger record          *)
(* (get_existing_from_row) are records                                     *)
(*   [invoiceNumber, date, vendorName, gstNumber : Python value,           *)
(*    totalAmountFloat : Python value (a float, or None),                  *)
(*    lineItems : sequence of [description : text, hsnSac : string,        *)
(*                             unitPrice : number]].                       *)
(***************************************************************************)
\* compute_hash(inv): SHA-256 of the four formatted fields put end to end.
\* The digest is taken to be collision-free, so the hash is the text hashed.
compute_hash(inv) ==
  Format(inv.gstNumber) \o Format(inv.invoiceNumber)
    \o Format(inv.date) \o Format(inv.totalAmountFloat)

\* " ".join(parts)
RECURSIVE JoinSpace(_)
JoinSpace(parts) ==
  IF parts = <<>> THEN <<>>
  ELSE IF Len(parts) = 1 THEN parts[1]
  ELSE parts[1] \o <<" ">> \o JoinSpace(Tail(parts))

\* A character of \w: a letter, a digit or the underscore.
IsWordChar(c) ==
  \/ IsDigit(c)
  \/ c = "_"
  \/ \E i \in 1..26 : UpperChars[i] = c \/ LowerChars[i] = c

\* CountVectorizer's analyzer: lower-case, then the tokens of two or more
\* word characters (token_pattern (?u)\b\w\w+\b); cur is the run being read.
RECURSIVE Tokenize(_, _)
Tokenize(chars, cur) ==
  IF chars = <<>> THEN (IF Len(cur) >= 2 THEN <<cur>> ELSE <<>>)
  ELSE IF IsWordChar(Head(chars)) THEN Tokenize(Tail(chars), cur \o <<Lower(Head(chars))>>)
  ELSE (IF Len(cur) >= 2 THEN <<cur>> ELSE <<>>) \o Tokenize(Tail(chars), <<>>)

\* Occurrences of token w in a token list: one cell of the term-count matrix.
TermCount(tokens, w) == Cardinality({i \in 1..Len(tokens) : tokens[i] = w})

RECURSIVE SumOver(_, _, _)
\* Sum of c1(w) * c2(w) over the words of a vocabulary.
SumOver(vocab, t1, t2) ==
  IF vocab = {} THEN 0
  ELSE LET w == CHOOSE v \in vocab : TRUE
       IN TermCount(t1, w) * TermCount(t2, w) + SumOver(vocab \ {w}, t1, t2)

\* lineitem_similarity(items1, items2): the cosine of the two term-count
\* vectors * 100, kept as dot / sqrt(n1 * n2); 0.0 (dot = 0) when a side has
\* no description text or the vocabulary is empty (ValueError).
lineitem_similarity(items1, items2) ==
  LET desc1 == JoinSpace([i \in 1..Len(items1) |-> items1[i].description])
      desc2 == JoinSpace([i \in 1..Len(items2) |-> items2[i].description])
      t1 == Tokenize(desc1, <<>>)
      t2 == Tokenize(desc2, <<>>)
      vocab == {t1[i] : i \in 1..Len(t1)} \cup {t2[i] : i \in 1..Len(t2)}
  IN IF desc1 = <<>> \/ desc2 = <<>> \/ vocab = {}
     THEN [dot |-> 0, n1 |-> 0, n2 |-> 0]
     ELSE [dot |-> SumOver(vocab, t1, t2),
           n1 |-> SumOver(vocab, t1, t1),
           n2 |-> SumOver(vocab, t2, t2)]

\* "line_sim >= t" for a percentage t > 0: dot / sqrt(n1 * n2) * 100 >= t.
\* (Descriptions whose cosine is a threshold itself while n1 or n2 is no
\* perfect square are kept out of the inputs: the float result is then one
\* unit in the last place off the threshold.)
LineAtLeast(ls, t) ==
  /\ ls.dot > 0
  /\ 10000 * ls.dot * ls.dot >= t * t * ls.n1 * ls.n2

\* The relative total difference of the three passes, as the fraction
\* num/den: |n - e| / e when e > 0, else 0.0 when n = 0.0 and 1.0 otherwise.
\* n and e are numbers here; a None candidate total is handled by the caller.
total_rel_diff(n, e) ==
  IF e > 0 THEN [num |-> Abs(n - e), den |-> e]
  ELSE IF n = 0 THEN [num |-> 0, den |-> 1] ELSE [num |-> 1, den |-> 1]

\* "rel <= p/100" for a fraction rel.
AtMostPct(rel, p) == 100 * rel.num <= p * rel.den

(***************************************************************************)
(* The ledger file: csvUtils writes it, pandas.read_csv loads it           *)
(***************************************************************************)
\* What csv.DictWriter writes for a value: nothing for None, str(v) otherwise.
CsvCell(v) == IF v.k = "none" THEN <<>> ELSE Format(v)

\* _get_row_data(data): the cells of the row (the columns screening reads).
\* lineItems is json.dumps of the list; json.loads gives the same list back,
\* so the cell holds the list.
_get_row_data(data) ==
  [invoiceNumber |-> CsvCell(data.invoiceNumber),
   date |-> CsvCell(data.date),
   vendorName |-> CsvCell(data.vendorName),
   gstNumber |-> CsvCell(data.gstNumber),
   lineItems |-> data.lineItems,
   totalAmountFloat |-> CsvCell(data.totalAmountFloat)]

\* The cell texts read_csv takes for a missing value (its default na_values).
NaTexts ==
  {<<>>, <<"N", "A">>, <<"N", "a", "N">>, <<"n", "a", "n">>, <<"N", "U", "L", "L">>,
   <<"n", "u", "l", "l">>, <<"N", "o", "n", "e">>, <<"N", "/", "A">>, <<"n", "/", "a">>}

\* A cell read_csv parses as a whole-number float: digits "." zeros.
IsWholeFloatText(chars) ==
  LET parts == Split(chars, ".")
  IN /\ Len(parts) = 2
     /\ AllDigits(parts[1])
     /\ parts[2] # <<>>
     /\ \A i \in 1..Len(parts[2]) : parts[2][i] = "0"

\* The text of a number without its minus sign.
Unsigned(chars) ==
  IF Len(chars) > 1 /\ Head(chars) = "-" THEN Tail(chars) ELSE chars

IsIntText(chars) == AllDigits(Unsigned(chars))

IsNumberText(chars) == IsIntText(chars) \/ IsWholeFloatText(Unsigned(chars))

Magnitude(digits) ==
  IF AllDigits(digits) THEN StrToInt(digits) ELSE StrToInt(Split(digits, ".")[1])

NumberOfText(chars) ==
  IF Unsigned(chars) # chars THEN 0 - Magnitude(Unsigned(chars)) ELSE Magnitude(chars)

\* read_csv's type inference for one column, from all its cells: int64 when
\* every cell is an integer, float64 when every cell is a number or missing,
\* else object (the texts, with NaN for the missing ones).
ReadColumn(cells) ==
  LET present == {i \in 1..Len(cells) : cells[i] \notin NaTexts}
      allInt == \A i \in present : IsIntText(cells[i])
      allNum == \A i \in present : IsNumberText(cells[i])
  IN [i \in 1..Len(cells) |->
        IF i \notin present THEN PyNaN
        ELSE IF allInt /\ present = 1..Len(cells) THEN PyInt(NumberOfText(cells[i]))
        ELSE IF allNum THEN PyFloat(NumberOfText(cells[i]))
        ELSE PyStr(cells[i])]

\* pd.to_numeric(column, errors="coerce").fillna(0.0) on totalAmountFloat.
to_numeric_fillna(v) == IF v.k \in {"int", "float"} THEN v ELSE PyFloat(0)

\* pd.read_csv(csv_path) and the totalAmountFloat clean-up that follows it:
\* the DataFrame rows, from the file's data rows.
read_csv(rows) ==
  LET col(f) == ReadColumn([i \in 1..Len(rows) |-> rows[i][f]])
      inv == col("invoiceNumber")
      dat == col("date")
      ven == col("vendorName")
      gst == col("gstNumber")
      tot == col("totalAmountFloat")
  IN [i \in 1..Len(rows) |->
        [invoiceNumber |-> inv[i],
         date |-> dat[i],
         vendorName |-> ven[i],
         gstNumber |-> gst[i],
         lineItems |-> rows[i].lineItems,
         totalAmountFloat |-> to_numeric_fillna(tot[i])]]

\* get_existing_from_row(row): the record compared with the candidate; the
\* total is float(row total or 0).
get_existing_from_row(row) ==
  [invoiceNumber |-> row.invoiceNumber,
   date |-> row.date,
   vendorName |-> row.vendorName,
   gstNumber |-> row.gstNumber,
   totalAmountFloat |-> PyFloat(row.totalAmountFloat.n),
   lineItems |-> row.lineItems]

(***************************************************************************)
(* Price-anomaly detector                                                  *)
(***************************************************************************)
\* A reason of a verdict: its text, and for a price anomaly the values its
\* message is formatted from.
Reason(text) == [text |-> text, detail |-> <<>>]

RECURSIVE SortOldestFirst(_, _)
\* The same sort with ascending=True: earlier dates first.
SortOldestFirst(todo, sorted) ==
  IF todo = <<>> THEN sorted
  ELSE LET x == Head(todo)
           keep == Cardinality({i \in 1..Len(sorted) :
                     DayNumber(sorted[i].invoice_date) <= DayNumber(x.invoice_date)})
       IN SortOldestFirst(Tail(todo),
            SubSeq(sorted, 1, keep) \o <<x>> \o SubSeq(sorted, keep + 1, Len(sorted)))

\* pandas sort_values(by="invoice_date", ascending=False) as it orders a
\* small frame: later dates first, equal dates in their frame order.
RECURSIVE SortNewestFirst(_, _)
SortNewestFirst(todo, sorted) ==
  IF todo = <<>> THEN sorted
  ELSE LET x == Head(todo)
           keep == Cardinality({i \in 1..Len(sorted) :
                     DayNumber(sorted[i].invoice_date) >= DayNumber(x.invoice_date)})
       IN SortNewestFirst(Tail(todo),
            SubSeq(sorted, 1, keep) \o <<x>> \o SubSeq(sorted, keep + 1, Len(sorted)))

RECURSIVE FlattenItems(_, _)
\* The rows of prepare_historical_items_db before sorting: one per line item
\* of every ledger row whose date parses.
FlattenItems(df, i) ==
  IF i > Len(df) THEN <<>>
  ELSE LET row == df[i]
           invoice_date == parse_date(row.date)
           mine == IF invoice_date = NoDate THEN <<>>
                   ELSE [k \in 1..Len(row.lineItems) |->
                           [vendor_gstin |-> normalize_text(row.gstNumber),
                            invoice_date |-> invoice_date,
                            normalized_description |->
                              normalize_text(PyStr(row.lineItems[k].description)),
                            item_hsn |-> row.lineItems[k].hsnSac,
                            unit_price |-> row.lineItems[k].unitPrice]]
       IN mine \o FlattenItems(df, i + 1)

\* prepare_historical_items_db(df)
prepare_historical_items_db(df) == SortNewestFirst(FlattenItems(df, 1), <<>>)

\* The defaults of detect_line_item_price_anomalies, in percent.
margin == 20

inflation_rate == 5

RECURSIVE Pow(_, _)
Pow(b, e) == IF e = 0 THEN 1 ELSE b * Pow(b, e - 1)

RECURSIVE Digits(_, _, _)
\* The first places digits of r / den after the point, r < den, as a whole
\* number, rounded half up on the digit that follows.
Digits(r, den, places) ==
  IF places = 0 THEN (IF 2 * r >= den THEN 1 ELSE 0)
  ELSE ((10 * r) \div den) * Pow(10, places - 1)
       + Digits((10 * r) % den, den, places - 1)

\* "new_price > acceptable_limit".  Within 30 days the limit is
\* last_price * (1 + margin).  Later it is last_price * (1 + inflation_rate)
\* ** (days / 365.25) * (1 + margin); with w whole years and a further part
\* x of a year, (1 + r) ** x lies below 1 + r * x, which is the limit used.
ExceedsLimit(new_price, last_price, days_diff) ==
  IF days_diff <= 30
  THEN 100 * new_price > (100 + margin) * last_price
  ELSE LET w == (days_diff * 100) \div 36525
           part == ((days_diff * 100 - w * 36525) * inflation_rate * 100) \div 36525 + 1
       IN new_price * 100 * Pow(100, w) * 10000
            > last_price * (100 + margin) * Pow(100 + inflation_rate, w) * (10000 + part)

\* acceptable_limit as the fraction num/den: last_price * (1 + margin) within
\* 30 days, and beyond them the limit ExceedsLimit compares with.
acceptable_limit(last_price, days_diff) ==
  IF days_diff <= 30
  THEN [num |-> (100 + margin) * last_price, den |-> 100]
  ELSE [num |-> last_price * (100 + margin)
                  * Pow(100 + inflation_rate, (days_diff * 100) \div 36525)
                  * (10000 + ((((days_diff * 100) % 36525) * inflation_rate * 100) \div 36525) + 1),
        den |-> 100 * Pow(100, (days_diff * 100) \div 36525) * 10000]

\* A non-negative fraction x / y to the given number of decimal places, as a
\* whole number of units of the last place (what "{:.1f}" and "{:,.2f}"
\* print, without the point).
Fixed(x, y, places) == (x \div y) * Pow(10, places) + Digits(x % y, y, places)

\* The percentage with the "- 1" left out: the price as a share of the limit.
pct_of_limit(new_price, limit) == Fixed(new_price * limit.den, limit.num, 3)

\* pct_diff = ((new_price / acceptable_limit) - 1) * 100 as printed by
\* "{pct_diff:.1f}", in tenths of a percent.
pct_diff(new_price, limit) ==
  Fixed(new_price * limit.den - limit.num, limit.num, 3)

RECURSIVE PriceScan(_, _, _, _, _)
\* The loop of detect_line_item_price_anomalies over the candidate's items.
PriceScan(items, k, gstin, new_date, db) ==
  IF k > Len(items) THEN <<>>
  ELSE LET item == items[k]
           new_norm_desc == normalize_text(PyStr(item.description))
           hist == {i \in 1..Len(db) :
                      /\ db[i].vendor_gstin = gstin
                      /\ db[i].item_hsn = item.hsnSac
                      /\ db[i].normalized_description = new_norm_desc
                      /\ DayNumber(db[i].invoice_date) < DayNumber(new_date)}
           rest == PriceScan(items, k + 1, gstin, new_date, db)
       IN IF hist = {} THEN rest
          ELSE LET last_purchase == db[CHOOSE i \in hist : \A j \in hist : i <= j]
                   last_price == last_purchase.unit_price
                   days_diff == DaysBetween(new_date, last_purchase.invoice_date)
               IN IF last_price <= 0 THEN rest
                  ELSE IF ExceedsLimit(item.unitPrice, last_price, days_diff)
                  THEN <<[text |-> "Price Anomaly",
                          detail |-> <<item.description, item.hsnSac, item.unitPrice,
                                       last_price, last_purchase.invoice_date,
                                       pct_diff(item.unitPrice,
                                                acceptable_limit(last_price, days_diff)),
                                       Fixed(acceptable_limit(last_price, days_diff).num,
                                             acceptable_limit(last_price, days_diff).den,
                                             2)>>]>> \o rest
                  ELSE rest

\* detect_line_item_price_anomalies(new_invoice, historical_items_df)
detect_line_item_price_anomalies(new_invoice, historical_items_df) ==
  LET new_date == parse_date(new_invoice.date)
  IN IF historical_items_df = <<>> \/ new_date = NoDate THEN <<>>
     ELSE PriceScan(new_invoice.lineItems, 1, normalize_text(new_invoice.gstNumber),
                    new_date, historical_items_df)

(***************************************************************************)
(* Ghost-invoice heuristic                                                 *)
(***************************************************************************)
RECURSIVE SortAscending(_)
SortAscending(nums) ==
  IF nums = <<>> THEN <<>>
  ELSE LET x == Head(nums)
           rest == SortAscending(Tail(nums))
           below == Cardinality({i \in 1..Len(rest) : rest[i] < x})
       IN SubSeq(rest, 1, below) \o <<x>> \o SubSeq(rest, below + 1, Len(rest))

\* Twice the median of a non-empty list of numbers (so that it is whole).
TwiceMedian(nums) ==
  LET srt == SortAscending(nums)
      n == Len(srt)
  IN IF n % 2 = 1 THEN 2 * srt[(n + 1) \div 2]
     ELSE srt[n \div 2] + srt[n \div 2 + 1]

\* The HSN codes of a list of line items (the empty code is dropped).
HsnSet(items) == {items[i].hsnSac : i \in 1..Len(items)} \ {""}

\* The signals with the HSN codes compared even when the vendor has no
\* ledger row.
GhostSignalsHsnAlways(new_inv, df) ==
  LET gstin == normalize_text(new_inv.gstNumber)
      vendor == {i \in 1..Len(df) : normalize_text(df[i].gstNumber) = gstin}
      vendor_hsns == UNION {HsnSet(df[i].lineItems) : i \in vendor}
  IN [unseen_gstin |-> vendor = {},
      hsn_unseen_for_vendor |-> HsnSet(new_inv.lineItems) \ vendor_hsns # {},
      price_anomaly |-> FALSE]

\* The three signals of detect_ghost_invoice(new_inv, historical_df).
GhostSignals(new_inv, df) ==
  LET gstin == normalize_text(new_inv.gstNumber)
      vendor == {i \in 1..Len(df) : normalize_text(df[i].gstNumber) = gstin}
      vendor_hsns == UNION {HsnSet(df[i].lineItems) : i \in vendor}
      new_hsns == HsnSet(new_inv.lineItems)
      totals == LET pick[todo \in SUBSET vendor] ==
                      IF todo = {} THEN <<>>
                      ELSE LET i == CHOOSE j \in todo : \A h \in todo : j <= h
                           IN <<df[i].totalAmountFloat.n>> \o pick[todo \ {i}]
                IN pick[vendor]
      med2 == TwiceMedian(totals)
      total == new_inv.totalAmountFloat
  IN [unseen_gstin |-> vendor = {},
      hsn_unseen_for_vendor |-> vendor # {} /\ new_hsns \ vendor_hsns # {},
      \* A None total makes the comparison raise; the except clause then
      \* leaves price_anomaly False.
      price_anomaly |-> /\ Cardinality(vendor) >= 3
                        /\ total.k = "float"
                        /\ med2 > 0
                        /\ (2 * total.n > 10 * med2 \/ 20 * total.n < med2)]

\* detect_ghost_invoice reporting from one signal on.
detect_ghost_invoice_any_signal(new_inv, df) ==
  LET sig == GhostSignals(new_inv, df)
  IN (IF sig.unseen_gstin
      THEN <<Reason("GSTIN not previously seen in historical data")>> ELSE <<>>)
     \o (IF sig.hsn_unseen_for_vendor
         THEN <<Reason("HSN codes in invoice not matching vendor's historical HSNs")>>
         ELSE <<>>)
     \o (IF sig.price_anomaly
         THEN <<Reason("Invoice total is highly deviant from vendor's historical median")>>
         ELSE <<>>)

\* detect_ghost_invoice(new_inv, historical_df): the reasons of the signals
\* that hold when at least two hold, else none.
detect_ghost_invoice(new_inv, df) ==
  LET sig == GhostSignals(new_inv, df)
      reasons ==
        (IF sig.unseen_gstin
         THEN <<Reason("GSTIN not previously seen in historical data")>> ELSE <<>>)
        \o (IF sig.hsn_unseen_for_vendor
            THEN <<Reason("HSN codes in invoice not matching vendor's historical HSNs")>>
            ELSE <<>>)
        \o (IF sig.price_anomaly
            THEN <<Reason("Invoice total is highly deviant from vendor's historical median")>>
            ELSE <<>>)
  IN IF Len(reasons) >= 2 THEN reasons ELSE <<>>

(***************************************************************************)
(* Near-duplicate entries                                                  *)
(***************************************************************************)
\* round(100 * num / den, 3) in thousandths: features["invoice_no_sim"].
Round3(sim) == (200000 * sim.num + sim.den) \div (2 * sim.den)

\* round(num / den, 6) in millionths: features["total_rel_diff"].
Round6(rel) ==
  (rel.num \div rel.den) * 1000000 + Digits(rel.num % rel.den, rel.den, 6)

\* date_factor without the two days of full credit: 1 - days / 30 from the
\* first day on.
date_factor_linear(date_diff) ==
  IF date_diff = NaNDays THEN 30
  ELSE IF date_diff >= 30 THEN 0 ELSE 30 - date_diff

\* date_factor of the confidence, in thirtieths: 1.0 for an unknown date
\* difference or one of at most 2 days, else max(0, 1 - days / 30).
date_factor30(date_diff) ==
  IF date_diff = NaNDays \/ date_diff <= 2 THEN 30
  ELSE IF date_diff >= 30 THEN 0 ELSE 30 - date_diff

\* The part of final_score that does not depend on the line items, in units
\* of 1/30,000,000: 0.35 * invoice_no_sim / 100 + 0.20 * date_factor
\* + 0.15 * gstin_match + 0.10 * (1 - min(1, total_rel_diff)).
ScoreBase(f) ==
  105 * f.invoice_no_sim
    + 200000 * date_factor30(f.date_diff_days)
    + (IF f.gstin_match THEN 4500000 ELSE 0)
    + 3 * (1000000 - (IF f.total_rel_diff > 1000000 THEN 1000000 ELSE f.total_rel_diff))

\* "final_confidence >= t / 10000", final_confidence being final_score
\* clamped to [0, 1] and rounded to 4 places.  The line-item term is
\* 0.20 * cosine; the cosine is compared at a resolution of 1/10000, which
\* is finer than the distance of any score of the model from a threshold.
ConfidenceAtLeast(f, t) ==
  LET need == (3000 * t - 1500) - ScoreBase(f)    \* what 0.20 * cosine must add
      q == (need + 599) \div 600                  \* the cosine needed, in 1/10000
      ls == f.lineitems_sim
  IN IF need <= 0 THEN TRUE
     ELSE IF q > 10000 \/ ls.dot = 0 THEN FALSE
     ELSE 100000000 * ls.dot * ls.dot >= q * q * ls.n1 * ls.n2

\* _build_near_dup_entry(new_invoice, idx, existing, invno_sim, line_sim,
\* total_rel_diff, date_diff, reason_special)
_build_near_dup_entry(new_invoice, idx, existing, invno_sim, line_sim, rel, date_diff, reason_special) ==
  LET features ==
        [invoice_no_sim |-> Round3(invno_sim),
         vendor_name_sim |->
           Round3(text_similarity(new_invoice.vendorName, existing.vendorName)),
         gstin_match |->
           normalize_text(new_invoice.gstNumber) = normalize_text(existing.gstNumber),
         total_rel_diff |-> Round6(rel),
         date_diff_days |-> date_diff,
         lineitems_sim |-> line_sim,
         hsn_mismatch_norm |->
           HsnSet(new_invoice.lineItems) # HsnSet(existing.lineItems)]
      reasons ==
        <<reason_special>>
        \o (IF features.invoice_no_sim >= 85000 THEN <<"Invoice number similar">> ELSE <<>>)
        \o (IF LineAtLeast(line_sim, 50) THEN <<"Line items similar">> ELSE <<>>)
        \o (IF features.total_rel_diff <= 50000 THEN <<"Totals nearly identical">> ELSE <<>>)
        \o (IF date_diff # NaNDays /\ date_diff <= 3 THEN <<"Dates close">> ELSE <<>>)
        \o (IF features.gstin_match THEN <<"GSTIN exact match">> ELSE <<>>)
  IN [db_row_index |-> idx, features |-> features, reasons |-> reasons]

(***************************************************************************)
(* run_historical_checks                                                   *)
(*                                                                         *)
(* A result is the report dict being built, with two fields the code keeps *)
(* in its control flow: passes, the passes entered so far, and status:     *)
(* "running", "returned" (a return statement was reached) or "raised" (an  *)
(* exception left the function).                                           *)
(***************************************************************************)
\* exact_duplicate_match = None
NoMatch == -1

\* The report as initialised before the passes.
InitialResult ==
  [exact_duplicate |-> FALSE,
   exact_duplicate_match |-> NoMatch,
   near_duplicates |-> <<>>,
   ghost_signals |-> <<>>,
   line_item_price_anomalies |-> <<>>,
   overall_flag |-> "CLEAN",
   reasons |-> <<>>,
   passes |-> <<>>,
   status |-> "running"]

\* The total comparison every pass makes raises TypeError (None - e) when
\* the candidate total n is None and the ledger total e is positive.
RelDiffRaises(n, e) == n.k = "none" /\ e > 0

\* Its value otherwise, on the candidate total n (a Python value): None is
\* not 0.0, so a None total against a zero ledger total gives 1.0.
RelDiff(n, e) == IF n.k = "none" THEN [num |-> 1, den |-> 1] ELSE total_rel_diff(n.n, e)

\* Pass 1 without its return statement: the cascade goes on after a hit.
ExactPassGoesOn(res, new_invoice, df) ==
  LET new_hash == compute_hash(new_invoice)
      hits == {i \in 1..Len(df) : compute_hash(get_existing_from_row(df[i])) = new_hash}
      r == [res EXCEPT !.passes = Append(@, "exact")]
  IN IF hits = {} THEN r
     ELSE [r EXCEPT !.exact_duplicate = TRUE,
                    !.exact_duplicate_match = (CHOOSE i \in hits : \A j \in hits : i <= j) - 1,
                    !.overall_flag = "EXACT_DUPLICATE",
                    !.reasons = Append(@,
                       Reason("Exact duplicate: identical vendor+invoice+date+amount"))]

\* Pass 1: the first ledger row whose hash is the candidate's.
ExactPass(res, new_invoice, df) ==
  LET new_hash == compute_hash(new_invoice)
      hits == {i \in 1..Len(df) : compute_hash(get_existing_from_row(df[i])) = new_hash}
      r == [res EXCEPT !.passes = Append(@, "exact")]
  IN IF hits = {} THEN r
     ELSE [r EXCEPT !.exact_duplicate = TRUE,
                    !.exact_duplicate_match = (CHOOSE i \in hits : \A j \in hits : i <= j) - 1,
                    !.overall_flag = "EXACT_DUPLICATE",
                    !.reasons = Append(@,
                       Reason("Exact duplicate: identical vendor+invoice+date+amount")),
                    !.status = "returned"]

\* The invoice-number pass with the tax ID as its only corroborating signal.
InvoiceNumberHitTaxIdOnly(new_invoice, existing) ==
  /\ AtLeast(text_similarity(new_invoice.invoiceNumber, existing.invoiceNumber), 95)
  /\ AtMostPct(RelDiff(new_invoice.totalAmountFloat, existing.totalAmountFloat.n), 5)
  /\ normalize_text(new_invoice.gstNumber) = normalize_text(existing.gstNumber)

\* The invoice-number pass without the corroborating signal.
InvoiceNumberHitUncorroborated(new_invoice, existing) ==
  /\ AtLeast(text_similarity(new_invoice.invoiceNumber, existing.invoiceNumber), 95)
  /\ AtMostPct(RelDiff(new_invoice.totalAmountFloat, existing.totalAmountFloat.n), 5)

\* Whether row i triggers the invoice-number pass.
InvoiceNumberHit(new_invoice, existing) ==
  LET invno_sim == text_similarity(new_invoice.invoiceNumber, existing.invoiceNumber)
      rel == RelDiff(new_invoice.totalAmountFloat, existing.totalAmountFloat.n)
      line_sim == lineitem_similarity(new_invoice.lineItems, existing.lineItems)
      date_diff == date_diff_days(new_invoice.date, existing.date)
      gstin_same ==
        normalize_text(new_invoice.gstNumber) = normalize_text(existing.gstNumber)
  IN /\ AtLeast(invno_sim, 95)
     /\ AtMostPct(rel, 5)
     /\ \/ LineAtLeast(line_sim, 50)
        \/ gstin_same
        \/ (date_diff # NaNDays /\ date_diff <= 3)

RECURSIVE InvoiceNumberScan(_, _, _, _)
InvoiceNumberScan(res, new_invoice, df, i) ==
  IF i > Len(df) THEN res
  ELSE LET existing == get_existing_from_row(df[i])
           rel == RelDiff(new_invoice.totalAmountFloat, existing.totalAmountFloat.n)
       IN IF RelDiffRaises(new_invoice.totalAmountFloat, existing.totalAmountFloat.n)
          THEN [res EXCEPT !.status = "raised"]
          ELSE IF InvoiceNumberHit(new_invoice, existing)
          THEN [res EXCEPT
                  !.near_duplicates = Append(@,
                     _build_near_dup_entry(new_invoice, i - 1, existing,
                       text_similarity(new_invoice.invoiceNumber, existing.invoiceNumber),
                       lineitem_similarity(new_invoice.lineItems, existing.lineItems),
                       rel, date_diff_days(new_invoice.date, existing.date),
                       "Invoice number nearly identical and amounts match")),
                  !.overall_flag = "HIGH_RISK_NEAR_DUPLICATE",
                  !.reasons = Append(@,
                     Reason("Invoice number extremely similar + totals match -> high risk")),
                  !.status = "returned"]
          ELSE InvoiceNumberScan(res, new_invoice, df, i + 1)

\* Pass 2: invoice-number priority.
InvoiceNumberPass(res, new_invoice, df) ==
  InvoiceNumberScan([res EXCEPT !.passes = Append(@, "invoice_number")], new_invoice, df, 1)

\* Whether a ledger record satisfies the date pass.
DateHit(new_invoice, existing) ==
  LET date_diff == date_diff_days(new_invoice.date, existing.date)
      total_rel == RelDiff(new_invoice.totalAmountFloat, existing.totalAmountFloat.n)
      vendor_sim == text_similarity(new_invoice.vendorName, existing.vendorName)
      line_sim == lineitem_similarity(new_invoice.lineItems, existing.lineItems)
  IN /\ date_diff # NaNDays /\ date_diff <= 1
     /\ AtMostPct(total_rel, 5)
     /\ AtLeast(vendor_sim, 75)
     /\ \/ LineAtLeast(line_sim, 40)
        \/ normalize_text(new_invoice.gstNumber) = normalize_text(existing.gstNumber)

RECURSIVE DateScanReturnsEarly(_, _, _, _)
\* The date pass returning at its first hit, as the invoice-number pass does.
DateScanReturnsEarly(res, new_invoice, df, i) ==
  IF i > Len(df) THEN res
  ELSE LET existing == get_existing_from_row(df[i])
       IN IF RelDiffRaises(new_invoice.totalAmountFloat, existing.totalAmountFloat.n)
          THEN [res EXCEPT !.status = "raised"]
          ELSE IF DateHit(new_invoice, existing)
          THEN [res EXCEPT
                  !.near_duplicates = Append(@,
                     _build_near_dup_entry(new_invoice, i - 1, existing,
                       text_similarity(new_invoice.invoiceNumber, existing.invoiceNumber),
                       lineitem_similarity(new_invoice.lineItems, existing.lineItems),
                       RelDiff(new_invoice.totalAmountFloat, existing.totalAmountFloat.n),
                       date_diff_days(new_invoice.date, existing.date),
                       "Dates and totals very close")),
                  !.overall_flag = "MEDIUM_RISK_POSSIBLE_DUPLICATE",
                  !.reasons = Append(@,
                     Reason("Invoice date and totals close -> possible duplicate")),
                  !.status = "returned"]
          ELSE DateScanReturnsEarly(res, new_invoice, df, i + 1)

RECURSIVE DateScan(_, _, _, _)
DateScan(res, new_invoice, df, i) ==
  IF i > Len(df) THEN res
  ELSE LET existing == get_existing_from_row(df[i])
       IN IF RelDiffRaises(new_invoice.totalAmountFloat, existing.totalAmountFloat.n)
          THEN [res EXCEPT !.status = "raised"]
          ELSE IF DateHit(new_invoice, existing)
          THEN DateScan(
                 [res EXCEPT
                    !.near_duplicates = Append(@,
                       _build_near_dup_entry(new_invoice, i - 1, existing,
                         text_similarity(new_invoice.invoiceNumber, existing.invoiceNumber),
                         lineitem_similarity(new_invoice.lineItems, existing.lineItems),
                         RelDiff(new_invoice.totalAmountFloat, existing.totalAmountFloat.n),
                         date_diff_days(new_invoice.date, existing.date),
                         "Dates and totals very close")),
                    !.overall_flag = "MEDIUM_RISK_POSSIBLE_DUPLICATE",
                    !.reasons = Append(@,
                       Reason("Invoice date and totals close -> possible duplicate"))],
                 new_invoice, df, i + 1)
          ELSE DateScan(res, new_invoice, df, i + 1)

\* Pass 3: date priority.
DatePass(res, new_invoice, df) ==
  DateScan([res EXCEPT !.passes = Append(@, "date")], new_invoice, df, 1)

\* The GSTIN pass passing over no record: the GSTIN is the same and a
\* supporting signal holds.
GstinHitUnsuppressed(new_invoice, existing) ==
  /\ normalize_text(new_invoice.gstNumber) = normalize_text(existing.gstNumber)
  /\ \/ AtMostPct(RelDiff(new_invoice.totalAmountFloat, existing.totalAmountFloat.n), 5)
     \/ AtLeast(text_similarity(new_invoice.invoiceNumber, existing.invoiceNumber), 80)
     \/ LineAtLeast(lineitem_similarity(new_invoice.lineItems, existing.lineItems), 60)

\* Whether the GSTIN pass emits a near-duplicate for a ledger record: the
\* GSTIN is the same, a supporting signal holds, and the record is not
\* passed over as a different invoice of the same vendor.
GstinHit(new_invoice, existing) ==
  LET gstin_same ==
        normalize_text(new_invoice.gstNumber) = normalize_text(existing.gstNumber)
      total_rel == RelDiff(new_invoice.totalAmountFloat, existing.totalAmountFloat.n)
      invno_sim == text_similarity(new_invoice.invoiceNumber, existing.invoiceNumber)
      line_sim == lineitem_similarity(new_invoice.lineItems, existing.lineItems)
      supporting ==
        (IF AtMostPct(total_rel, 5) THEN 1 ELSE 0)
        + (IF AtLeast(invno_sim, 80) THEN 1 ELSE 0)
        + (IF LineAtLeast(line_sim, 60) THEN 1 ELSE 0)
  IN /\ gstin_same
     /\ supporting >= 1
     /\ ~(~LineAtLeast(line_sim, 30) /\ ~AtLeast(invno_sim, 90))

\* Whether an emitted record ends the GSTIN pass with a high-risk verdict.
GstinStrong(new_invoice, existing) ==
  \/ AtLeast(text_similarity(new_invoice.invoiceNumber, existing.invoiceNumber), 90)
  \/ AtMostPct(RelDiff(new_invoice.totalAmountFloat, existing.totalAmountFloat.n), 2)

RECURSIVE GstinScan(_, _, _, _)
GstinScan(res, new_invoice, df, i) ==
  IF i > Len(df) THEN res
  ELSE LET existing == get_existing_from_row(df[i])
       IN IF RelDiffRaises(new_invoice.totalAmountFloat, existing.totalAmountFloat.n)
          THEN [res EXCEPT !.status = "raised"]
          ELSE IF GstinHit(new_invoice, existing)
          THEN LET r == [res EXCEPT
                           !.near_duplicates = Append(@,
                              _build_near_dup_entry(new_invoice, i - 1, existing,
                                text_similarity(new_invoice.invoiceNumber,
                                                existing.invoiceNumber),
                                lineitem_similarity(new_invoice.lineItems,
                                                    existing.lineItems),
                                RelDiff(new_invoice.totalAmountFloat,
                                        existing.totalAmountFloat.n),
                                date_diff_days(new_invoice.date, existing.date),
                                "GSTIN matches and supporting signals present"))]
               IN IF GstinStrong(new_invoice, existing)
                  THEN [r EXCEPT
                          !.overall_flag = "HIGH_RISK_NEAR_DUPLICATE",
                          !.reasons = Append(@,
                             Reason("GSTIN match with strong supporting signals -> high risk")),
                          !.status = "returned"]
                  ELSE GstinScan(r, new_invoice, df, i + 1)
          ELSE GstinScan(res, new_invoice, df, i + 1)

\* Pass 4: GSTIN with item/amount support.
GstinPass(res, new_invoice, df) ==
  GstinScan([res EXCEPT !.passes = Append(@, "gstin")], new_invoice, df, 1)

\* Step 5 setting its flag over whatever flag a pass has set.
GhostStageOverrides(res, new_invoice, df) ==
  IF detect_ghost_invoice(new_invoice, df) = <<>>
  THEN [res EXCEPT !.passes = Append(@, "ghost")]
  ELSE [res EXCEPT
          !.passes = Append(@, "ghost"),
          !.ghost_signals = detect_ghost_invoice(new_invoice, df),
          !.overall_flag = "POTENTIAL_GHOST_INVOICE",
          !.reasons = @ \o detect_ghost_invoice(new_invoice, df),
          !.status = "returned"]

\* Step 5 keeping the signals out of the reasons: a ghost report whose
\* reasons are those of the passes before it.
GhostStageSignalsOnly(res, new_invoice, df) ==
  IF detect_ghost_invoice(new_invoice, df) = <<>>
  THEN [res EXCEPT !.passes = Append(@, "ghost")]
  ELSE [res EXCEPT
          !.passes = Append(@, "ghost"),
          !.ghost_signals = detect_ghost_invoice(new_invoice, df),
          !.overall_flag = IF @ = "CLEAN" THEN "POTENTIAL_GHOST_INVOICE" ELSE @,
          !.status = "returned"]

\* Step 5: conservative ghost detection.
GhostStage(res, new_invoice, df) ==
  LET ghost_reasons == detect_ghost_invoice(new_invoice, df)
      r == [res EXCEPT !.passes = Append(@, "ghost")]
  IN IF ghost_reasons = <<>> THEN r
     ELSE [r EXCEPT
             !.ghost_signals = ghost_reasons,
             !.overall_flag = IF @ = "CLEAN" THEN "POTENTIAL_GHOST_INVOICE" ELSE @,
             !.reasons = @ \o ghost_reasons,
             !.status = "returned"]

\* Step 6 with no flag of its own: the anomalies are reported under the
\* flag the passes left.
PriceStageKeepsFlag(res, new_invoice, df_items) ==
  IF detect_line_item_price_anomalies(new_invoice, df_items) = <<>>
  THEN [res EXCEPT !.passes = Append(@, "price")]
  ELSE [res EXCEPT
          !.passes = Append(@, "price"),
          !.line_item_price_anomalies = detect_line_item_price_anomalies(new_invoice, df_items),
          !.reasons = @ \o detect_line_item_price_anomalies(new_invoice, df_items),
          !.status = "returned"]

\* Step 6: line-item price anomalies.
PriceStage(res, new_invoice, df_items) ==
  LET price_anomalies == detect_line_item_price_anomalies(new_invoice, df_items)
      r == [res EXCEPT !.passes = Append(@, "price")]
  IN IF price_anomalies = <<>> THEN r
     ELSE [r EXCEPT
             !.line_item_price_anomalies = price_anomalies,
             !.reasons = @ \o price_anomalies,
             !.overall_flag = IF @ = "CLEAN" THEN "PRICE_ANOMALY" ELSE @,
             !.status = "returned"]

\* score_key(x) > score_key(y): (invoice_no_sim, lineitems_sim,
\* -total_rel_diff), compared as tuples.
ScoreKeyGreater(x, y) ==
  LET fx == x.features
      fy == y.features
      lx == fx.lineitems_sim
      ly == fy.lineitems_sim
      \* cosine of x against cosine of y, cross-multiplied and squared
      lineGreater == lx.dot * lx.dot * ly.n1 * ly.n2 > ly.dot * ly.dot * lx.n1 * lx.n2
      lineEqual == lx.dot * lx.dot * ly.n1 * ly.n2 = ly.dot * ly.dot * lx.n1 * lx.n2
  IN \/ fx.invoice_no_sim > fy.invoice_no_sim
     \/ /\ fx.invoice_no_sim = fy.invoice_no_sim
        /\ \/ (IF lx.dot = 0 \/ ly.dot = 0 THEN lx.dot > ly.dot ELSE lineGreater)
           \/ /\ (IF lx.dot = 0 \/ ly.dot = 0 THEN lx.dot = ly.dot ELSE lineEqual)
              /\ fx.total_rel_diff < fy.total_rel_diff

\* The near-duplicates left in the order the passes emitted them.
KeepEmissionOrder(todo, sorted) == todo

RECURSIVE SortByScore(_, _)
\* sorted(near_duplicates, key=score_key, reverse=True): a stable sort, so
\* entries of equal key keep their order.
SortByScore(todo, sorted) ==
  IF todo = <<>> THEN sorted
  ELSE LET x == Head(todo)
           keep == Cardinality({i \in 1..Len(sorted) : ~ScoreKeyGreater(x, sorted[i])})
       IN SortByScore(Tail(todo),
            SubSeq(sorted, 1, keep) \o <<x>> \o SubSeq(sorted, keep + 1, Len(sorted)))

\* Steps 7 and 8 without the reason step 8 gives when nothing was found.
RankStageNoCleanReason(res) ==
  IF res.near_duplicates = <<>>
  THEN [res EXCEPT !.passes = Append(@, "rank"), !.status = "returned"]
  ELSE [res EXCEPT !.passes = Append(@, "rank"), !.status = "returned",
                   !.near_duplicates = SortByScore(@, <<>>),
                   !.overall_flag = IF @ = "CLEAN" THEN "LOW_RISK_RECHECK" ELSE @]

\* Step 7 without the flag from the top entry's confidence.
RankStageKeepsFlag(res) ==
  [res EXCEPT !.passes = Append(@, "rank"), !.status = "returned",
              !.near_duplicates = SortByScore(@, <<>>)]

\* Steps 7 and 8: rank the near-duplicates collected, or report CLEAN.
RankStage(res) ==
  LET r == [res EXCEPT !.passes = Append(@, "rank"), !.status = "returned"]
  IN IF res.near_duplicates # <<>>
     THEN LET srt == SortByScore(res.near_duplicates, <<>>)
              top == srt[1]
          IN IF res.overall_flag = "CLEAN"
             THEN [r EXCEPT
                     !.near_duplicates = srt,
                     !.overall_flag =
                        IF ConfidenceAtLeast(top.features, 9000)
                        THEN "HIGH_RISK_NEAR_DUPLICATE"
                        ELSE IF ConfidenceAtLeast(top.features, 7500)
                        THEN "MEDIUM_RISK_POSSIBLE_DUPLICATE"
                        ELSE "LOW_RISK_RECHECK",
                     !.reasons = Append(@,
                        Reason("Similarity-based match found; review required"))]
             ELSE [r EXCEPT !.near_duplicates = srt]
     ELSE IF res.reasons = <<>>
     THEN [r EXCEPT !.reasons =
             <<Reason("No duplicates, anomalies, or ghost signals found.")>>]
     ELSE r

\* The translation of parsedData at the head of run_historical_checks.
new_invoice_of(parsedData) ==
  [invoiceNumber |-> parsedData.invoiceNumber,
   date |-> parsedData.date,
   vendorName |-> parsedData.vendorName,
   gstNumber |-> parsedData.gstNumber,
   lineItems |-> parsedData.lineItems,
   totalAmountFloat |-> parsedData.totalAmountFloat]

\* The numbered sections of run_historical_checks, in the order of the code.
Stage(k, res, new_invoice, df) ==
  CASE k = 1 -> ExactPass(res, new_invoice, df)
    [] k = 2 -> InvoiceNumberPass(res, new_invoice, df)
    [] k = 3 -> DatePass(res, new_invoice, df)
    [] k = 4 -> GstinPass(res, new_invoice, df)
    [] k = 5 -> GhostStage(res, new_invoice, df)
    [] k = 6 -> PriceStage(res, new_invoice, prepare_historical_items_db(df))
    [] k = 7 -> RankStage(res)

\* The sections run in order; none runs once the function has returned or
\* raised.
RECURSIVE RunStages(_, _, _, _, _)
RunStages(res, k, last, new_invoice, df) ==
  IF k > last \/ res.status # "running" THEN res
  ELSE RunStages(Stage(k, res, new_invoice, df), k + 1, last, new_invoice, df)

\* pd.read_csv on a file whose first line is a data row: that row names the
\* columns, so the rows after it have none of the columns the code reads
\* and row.get gives its default for each: "", or None where none is given.
read_csv_headerless(rows) ==
  [i \in 1..(Len(rows) - 1) |->
     [invoiceNumber |-> PyStr(<<>>), date |-> PyStr(<<>>), vendorName |-> PyStr(<<>>),
      gstNumber |-> PyStr(<<>>), lineItems |-> <<>>, totalAmountFloat |-> PyNone]]

\* historical_df["gstNumber"] in detect_ghost_invoice on such a frame:
\* KeyError, which nothing in run_historical_checks catches.
GhostKeyError(res) ==
  IF res.status # "running" THEN res
  ELSE [res EXCEPT !.passes = Append(@, "ghost"), !.status = "raised"]

\* The report of the sections: of all seven on a frame with the columns, of
\* the four passes and the ghost detection's KeyError on one without.
AfterStages(header, res) == IF header THEN res ELSE GhostKeyError(res)

\* run_historical_checks(parsedData, csv_path): exists is whether the ledger
\* file exists, header whether it starts with the header line, rows its data
\* rows, readable whether read_csv succeeds.
run_historical_checks(parsedData, exists, header, rows, readable) ==
  LET new_invoice == new_invoice_of(parsedData)
  IN IF ~exists
     THEN [InitialResult EXCEPT
             !.reasons = <<Reason("No historical data to compare against. New invoice will be added to history.")>>,
             !.status = "returned"]
     ELSE IF ~readable
     THEN [InitialResult EXCEPT
             !.overall_flag = "ERROR",
             !.reasons = <<Reason("Failed to read historical data")>>,
             !.status = "returned"]
     ELSE IF ~header /\ rows = <<>>
     THEN [InitialResult EXCEPT
             !.reasons = <<Reason("Historical data file is empty. New invoice will be added to history.")>>,
             !.status = "returned"]
     ELSE AfterStages(header,
            RunStages(InitialResult, 1, IF header THEN 7 ELSE 4, new_invoice,
                      IF header THEN read_csv(rows) ELSE read_csv_headerless(rows)))

(***************************************************************************)
(* The batch loop of invoiceFraudDetector.main                             *)
(***************************************************************************)
VARIABLES
  uploads,             \* the parsed invoices of the files the user uploads
  fileExists,          \* params_clean.csv exists
  hasHeader,           \* its first line is the header line
  ledger,              \* its data rows, in file order
  flaggedRows,         \* number of data rows of params_flagged.csv
  processed,           \* files handled so far
  pc,                  \* "idle", "save" (screened, not yet saved) or "failed"
  parsed_data,         \* the invoice of the file being handled
  all_flags,           \* its flags
  historical_findings, \* its report from run_historical_checks
  processed2,          \* the same five of a second browser session, which
  pc2,                 \* runs main on its own thread over the same two
  parsed_data2,        \* CSV files
  all_flags2,
  historical_findings2

\* The loop variables of the second session.
session2 == <<processed2, pc2, parsed_data2, all_flags2, historical_findings2>>

vars == <<uploads, fileExists, hasHeader, ledger, flaggedRows, processed, pc, parsed_data,
          all_flags, historical_findings, session2>>

\* Files handled in one exploration.
MaxFiles == 4

\* parsed_data = {} and historical_findings = {} at the head of an iteration.
NoInvoice ==
  [invoiceNumber |-> PyNone, date |-> PyNone, vendorName |-> PyNone,
   gstNumber |-> PyNone, lineItems |-> <<>>, totalAmountFloat |-> PyNone]

NoFindings == [InitialResult EXCEPT !.overall_flag = "", !.status = "none"]

\* save_to_clean_csv(data): one row appended (after the header, when the
\* file is new).
save_to_clean_csv(rows, data) == Append(rows, _get_row_data(data))

\* main without the reasons of the historical report: only the other checks
\* decide where the invoice is saved.
CollectOtherFlagsOnly(other_flags, findings) == other_flags

\* main taking a LOW_RISK_RECHECK report for a clean one.
CollectFlagsAboveLowRisk(other_flags, findings) ==
  other_flags \o (IF findings.overall_flag \notin {"CLEAN", "LOW_RISK_RECHECK"}
                  THEN findings.reasons ELSE <<>>)

\* The flags main collects for a parsed invoice: those of the discrepancy
\* and HSN-rate checks (other_flags, decided outside this model), then the
\* reasons of a report that is not CLEAN.
CollectFlags(other_flags, findings) ==
  other_flags \o (IF findings.overall_flag # "CLEAN" THEN findings.reasons ELSE <<>>)

\* The loop body with a report that carries over from file to file: from
\* the second file on, its reasons come twice.
ScreenSharedReport(findings) ==
  /\ all_flags' = CollectFlags(<<>>, findings)
  /\ historical_findings' =
       [findings EXCEPT !.reasons = IF processed > 0 THEN @ \o @ ELSE @]
  /\ pc' = IF findings.status = "raised" THEN "failed" ELSE "save"

\* What the loop body does with the report of run_historical_checks: the
\* except clause when it raised, else the flags of the file.
Screen(findings) ==
  IF findings.status = "raised"
  THEN /\ all_flags' = <<Reason("Critical error")>>
       /\ historical_findings' =
            [NoFindings EXCEPT !.overall_flag = "CRITICAL_ERROR",
                               !.reasons = all_flags',
                               !.status = "raised"]
       /\ pc' = "failed"
  ELSE \E flagged \in BOOLEAN :
         /\ all_flags' =
              CollectFlags(IF flagged
                           THEN <<Reason("Discrepancy or HSN rate finding")>>
                           ELSE <<>>, findings)
         /\ historical_findings' = findings
         /\ pc' = "save"

\* One file, up to the return of run_historical_checks (main, the loop body
\* through the await of asyncio.to_thread).
ProcessFile ==
  /\ pc = "idle"
  /\ processed < MaxFiles
  /\ \E data \in uploads :
       /\ parsed_data' = data
       /\ IF ~(Truthy(data.invoiceNumber) \/ Truthy(data.gstNumber))
          THEN /\ all_flags' = <<Reason("Failed to parse key data (Invoice # or GSTIN).")>>
               /\ historical_findings' =
                    [NoFindings EXCEPT !.overall_flag = "PARSE_ERROR",
                                       !.reasons = all_flags',
                                       !.status = "returned"]
               /\ pc' = "save"
          ELSE \E readable \in (IF fileExists THEN BOOLEAN ELSE {TRUE}) :
                 Screen(run_historical_checks(data, fileExists, hasHeader, ledger, readable))
  /\ UNCHANGED <<uploads, fileExists, hasHeader, ledger, flaggedRows, processed, session2>>

\* The save that follows: the clean ledger when there is no flag, else the
\* flagged file. save_to_clean_csv writes the header line only when it
\* creates the file.
SaveResult ==
  /\ pc = "save"
  /\ IF all_flags = <<>>
     THEN /\ ledger' = save_to_clean_csv(ledger, parsed_data)
          /\ hasHeader' = (fileExists => hasHeader)
          /\ fileExists' = TRUE
          /\ UNCHANGED flaggedRows
     ELSE /\ flaggedRows' = flaggedRows + 1
          /\ UNCHANGED <<ledger, fileExists, hasHeader>>
  /\ processed' = processed + 1
  /\ pc' = "idle"
  /\ parsed_data' = NoInvoice
  /\ all_flags' = <<>>
  /\ historical_findings' = NoFindings
  /\ UNCHANGED <<uploads, session2>>

\* The except clause of the loop body: the file is reported, nothing is
\* saved.
CriticalError ==
  /\ pc = "failed"
  /\ processed' = processed + 1
  /\ pc' = "idle"
  /\ parsed_data' = NoInvoice
  /\ all_flags' = <<>>
  /\ historical_findings' = NoFindings
  /\ UNCHANGED <<uploads, fileExists, hasHeader, ledger, flaggedRows, session2>>

Next == ProcessFile \/ SaveResult \/ CriticalError

\* The loop variables of the first session.
session1 == <<processed, pc, parsed_data, all_flags, historical_findings>>

\* Screen, ProcessFile, SaveResult and CriticalError as the second session
\* runs them.
Screen2(findings) ==
  IF findings.status = "raised"
  THEN /\ all_flags2' = <<Reason("Critical error")>>
       /\ historical_findings2' =
            [NoFindings EXCEPT !.overall_flag = "CRITICAL_ERROR",
                               !.reasons = all_flags2',
                               !.status = "raised"]
       /\ pc2' = "failed"
  ELSE \E flagged \in BOOLEAN :
         /\ all_flags2' =
              CollectFlags(IF flagged
                           THEN <<Reason("Discrepancy or HSN rate finding")>>
                           ELSE <<>>, findings)
         /\ historical_findings2' = findings
         /\ pc2' = "save"

ProcessFile2 ==
  /\ pc2 = "idle"
  /\ processed2 < MaxFiles
  /\ \E data \in uploads :
       /\ parsed_data2' = data
       /\ IF ~(Truthy(data.invoiceNumber) \/ Truthy(data.gstNumber))
          THEN /\ all_flags2' = <<Reason("Failed to parse key data (Invoice # or GSTIN).")>>
               /\ historical_findings2' =
                    [NoFindings EXCEPT !.overall_flag = "PARSE_ERROR",
                                       !.reasons = all_flags2',
                                       !.status = "returned"]
               /\ pc2' = "save"
          ELSE \E readable \in (IF fileExists THEN BOOLEAN ELSE {TRUE}) :
                 Screen2(run_historical_checks(data, fileExists, hasHeader, ledger, readable))
  /\ UNCHANGED <<uploads, fileExists, hasHeader, ledger, flaggedRows, processed2, session1>>

SaveResult2 ==
  /\ pc2 = "save"
  /\ IF all_flags2 = <<>>
     THEN /\ ledger' = save_to_clean_csv(ledger, parsed_data2)
          /\ hasHeader' = (fileExists => hasHeader)
          /\ fileExists' = TRUE
          /\ UNCHANGED flaggedRows
     ELSE /\ flaggedRows' = flaggedRows + 1
          /\ UNCHANGED <<ledger, fileExists, hasHeader>>
  /\ processed2' = processed2 + 1
  /\ pc2' = "idle"
  /\ parsed_data2' = NoInvoice
  /\ all_flags2' = <<>>
  /\ historical_findings2' = NoFindings
  /\ UNCHANGED <<uploads, session1>>

CriticalError2 ==
  /\ pc2 = "failed"
  /\ processed2' = processed2 + 1
  /\ pc2' = "idle"
  /\ parsed_data2' = NoInvoice
  /\ all_flags2' = <<>>
  /\ historical_findings2' = NoFindings
  /\ UNCHANGED <<uploads, fileExists, hasHeader, ledger, flaggedRows, session1>>

\* Two sessions at once: the steps of either, in any interleaving.
NextTwoSessions ==
  \/ ProcessFile
  \/ SaveResult
  \/ CriticalError
  \/ ProcessFile2
  \/ SaveResult2
  \/ CriticalError2

(***************************************************************************)
(* Inputs: what parseInvoiceMultimodal returns for the uploaded files.     *)
(* The fields are those run_historical_checks and csvUtils read.           *)
(***************************************************************************)
Invoice(number, date, vendor, gst, items, total) ==
  [invoiceNumber |-> number, date |-> date, vendorName |-> vendor,
   gstNumber |-> gst, lineItems |-> items, totalAmountFloat |-> total]

Item(description, hsn, price) ==
  [description |-> description, hsnSac |-> hsn, unitPrice |-> price]

\* The text "dd-mm-yyyy" of a day.
TwoDigits(n) == IF n < 10 THEN <<"0">> \o IntToStr(n) ELSE IntToStr(n)

DMY(d, m, y) == PyStr(TwoDigits(d) \o <<"-">> \o TwoDigits(m) \o <<"-">> \o IntToStr(y))

\* Invoice numbers.  NoA and NoB are the same once normalised; NoC is NoA
\* with a digit added (similarity 95.2 to NoA) and NoD is NoA with a digit
\* dropped (94.7 to NoA, 90 to NoC); NoB7 and NoC9 resemble none of them.
NoA == PyStr(<<"I", "N", "V", "-", "1", "0", "2", "3", "4", "5", "6">>)
NoB == PyStr(<<"i", "n", "v", "1", "0", "2", "3", "4", "5", "6">>)
NoC == PyStr(<<"I", "N", "V", "1", "0", "2", "3", "4", "5", "6", "7">>)
NoD == PyStr(<<"I", "N", "V", "1", "0", "2", "3", "4", "5">>)
NoB7 == PyStr(<<"B", "7">>)
NoC9 == PyStr(<<"C", "9">>)

Acme == PyStr(<<"A", "c", "m", "e">>)

GstX == PyStr(<<"G", "X">>)
GstY == PyStr(<<"G", "Y">>)
GstZ == PyStr(<<"G", "Z">>)

Pen(price) == <<Item(<<"p", "e", "n">>, "H1", price)>>
Ink(price) == <<Item(<<"i", "n", "k">>, "H2", price)>>

Bolt == PyStr(<<"B", "o", "l", "t">>)

NoD4 == PyStr(<<"D", "4">>)
NoE5 == PyStr(<<"E", "5">>)

\* Three-item invoices: any two of them share at most the pen.
PenInkCap(price) ==
  <<Item(<<"p", "e", "n">>, "H1", price), Item(<<"i", "n", "k">>, "H2", 5),
    Item(<<"c", "a", "p">>, "H3", 5)>>

PenBoxCup(price) ==
  <<Item(<<"p", "e", "n">>, "H1", price), Item(<<"b", "o", "x">>, "H2", 5),
    Item(<<"c", "u", "p">>, "H3", 5)>>

PenFigGum(price) ==
  <<Item(<<"p", "e", "n">>, "H1", price), Item(<<"f", "i", "g">>, "H2", 5),
    Item(<<"g", "u", "m">>, "H3", 5)>>

JamNutOat(hsn, price) ==
  <<Item(<<"j", "a", "m">>, hsn, price), Item(<<"n", "u", "t">>, hsn, price),
    Item(<<"o", "a", "t">>, hsn, price)>>

\* An invoice whose total could not be parsed.
NoTotal == Invoice(NoC9, DMY(3, 1, 2025), Acme, GstY, Pen(10), PyNone)

\* Uploads around one invoice: the same invoice again, and invoices that
\* resemble it in number, date, vendor, GSTIN, items and total to the
\* degrees the passes distinguish; an invoice with the fields of the
\* parser's response schema only (no number, no vendor name); one without a
\* total and one the parser could not read.
DuplicateUploads ==
  { Invoice(NoA, DMY(1, 1, 2025), Acme, GstX, Pen(10), PyFloat(100)),
    Invoice(NoA, DMY(1, 1, 2025), Acme, GstY, Pen(10), PyFloat(110)),
    Invoice(NoB, DMY(1, 1, 2025), Acme, GstX, Pen(10), PyFloat(105)),
    Invoice(NoC, DMY(15, 1, 2025), Acme, GstZ, Pen(10), PyFloat(100)),
    Invoice(NoC, DMY(15, 1, 2025), Acme, GstZ, Ink(10), PyFloat(100)),
    Invoice(NoD, DMY(15, 1, 2025), Acme, GstX, Pen(10), PyFloat(104)),
    Invoice(NoB7, DMY(2, 1, 2025), Acme, GstX, Pen(10), PyFloat(100)),
    Invoice(NoB7, DMY(2, 1, 2025), Acme, GstY, Pen(10), PyFloat(100)),
    Invoice(NoB7, DMY(2, 1, 2025), Acme, GstX, Pen(10), PyFloat(104)),
    Invoice(NoB7, DMY(2, 1, 2025), Bolt, GstY, Pen(10), PyFloat(100)),
    Invoice(NoC9, DMY(3, 1, 2025), Acme, GstY, Pen(10), PyFloat(100)),
    Invoice(NoB7, DMY(15, 1, 2025), Acme, GstX, Pen(10), PyFloat(104)),
    Invoice(PyNone, DMY(1, 1, 2025), PyNone, GstX, Pen(10), PyFloat(100)),
    NoTotal,
    NoInvoice }

\* Uploads of one vendor (GstX) over three months, one of them of free
\* samples, and of a vendor not seen before (GstY).
VendorUploads ==
  { Invoice(NoB7, DMY(1, 1, 2025), Acme, GstX, PenInkCap(10), PyFloat(100)),
    Invoice(NoC9, DMY(15, 1, 2025), Acme, GstX, PenBoxCup(12), PyFloat(200)),
    Invoice(NoD4, DMY(31, 1, 2025), Acme, GstX, JamNutOat("H2", 0), PyFloat(300)),
    Invoice(NoE5, DMY(10, 2, 2025), Acme, GstX, PenFigGum(14), PyFloat(400)),
    Invoice(NoE5, DMY(10, 2, 2025), Acme, GstX, PenFigGum(15), PyFloat(400)),
    Invoice(NoE5, DMY(1, 4, 2025), Acme, GstX, PenFigGum(15), PyFloat(400)),
    Invoice(NoE5, DMY(10, 2, 2025), Acme, GstX, JamNutOat("H9", 5), PyFloat(5000)),
    Invoice(NoE5, DMY(10, 2, 2025), Acme, GstX, JamNutOat("H2", 5), PyFloat(5000)),
    Invoice(NoE5, DMY(10, 2, 2025), Acme, GstX, JamNutOat("H9", 5), PyFloat(4)),
    Invoice(NoE5, DMY(10, 2, 2025), Acme, GstY, JamNutOat("H9", 5), PyFloat(5000)),
    NoTotal }

\* Three-item invoices that share the widget (HSN 8471) only.
Widget(price) == Item(<<"w", "i", "d", "g", "e", "t">>, "8471", price)

WidgetInkCap(price) ==
  <<Widget(price), Item(<<"i", "n", "k">>, "H2", 5), Item(<<"c", "a", "p">>, "H3", 5)>>

WidgetBoxCup(price) ==
  <<Widget(price), Item(<<"b", "o", "x">>, "H2", 5), Item(<<"c", "u", "p">>, "H3", 5)>>

WidgetFigGum(price) ==
  <<Widget(price), Item(<<"f", "i", "g">>, "H2", 5), Item(<<"g", "u", "m">>, "H3", 5)>>

WidgetJamNut(price) ==
  <<Widget(price), Item(<<"j", "a", "m">>, "H2", 5), Item(<<"n", "u", "t">>, "H3", 5)>>

\* Uploads of a vendor that sells a widget at 100 in January 2025, the last
\* time on 31 January, and invoices of 2 March 2025 (thirty days later) with
\* the widget at 120, 121 and 200.
WidgetUploads ==
  { Invoice(NoB7, DMY(1, 1, 2025), Acme, GstX, WidgetInkCap(100), PyFloat(100)),
    Invoice(NoC9, DMY(15, 1, 2025), Acme, GstX, WidgetBoxCup(100), PyFloat(200)),
    Invoice(NoD4, DMY(31, 1, 2025), Acme, GstX, WidgetFigGum(100), PyFloat(300)),
    Invoice(NoE5, DMY(2, 3, 2025), Acme, GstX, WidgetJamNut(120), PyFloat(400)),
    Invoice(NoE5, DMY(2, 3, 2025), Acme, GstX, WidgetJamNut(121), PyFloat(400)),
    Invoice(NoE5, DMY(2, 3, 2025), Acme, GstX, WidgetJamNut(200), PyFloat(400)),
    NoTotal }

\* NoA cut short: similarity 66.7 and 88.9 to NoA.
NoA10 == PyStr(<<"I", "N", "V", "-", "1", "0">>)
NoA10234 == PyStr(<<"I", "N", "V", "-", "1", "0", "2", "3", "4">>)

\* Two invoices of one vendor on one day that do not resemble each other
\* (totals 8% apart, one item in three shared), and invoices of the
\* following days that resemble both: in total (4% from each), in line
\* items and, to different degrees, in number.
RankUploads ==
  { Invoice(NoB7, DMY(1, 1, 2025), Acme, GstX, PenInkCap(10), PyFloat(100)),
    Invoice(NoA, DMY(1, 1, 2025), Acme, GstX, PenBoxCup(10), PyFloat(108)),
    Invoice(NoA10, DMY(3, 1, 2025), Acme, GstX, PenFigGum(10), PyFloat(104)),
    Invoice(NoA10234, DMY(3, 1, 2025), Acme, GstX, PenFigGum(10), PyFloat(104)),
    Invoice(NoA10234, DMY(3, 1, 2025), Acme, GstX, PenBoxCup(10), PyFloat(104)),
    Invoice(NoC9, DMY(2, 1, 2025), Acme, GstX, PenFigGum(10), PyFloat(104)),
    NoTotal }

\* Invoice numbers and vendor names over a few letters, which share blocks
\* of characters in different places.
No1A1 == PyStr(<<"1", "A", "1">>)
NoAB1 == PyStr(<<"A", "B", "1">>)
No1AB == PyStr(<<"1", "A", "B">>)
NoB1B == PyStr(<<"B", "1", "B">>)
NoA1BA == PyStr(<<"A", "1", "-", "B", "A">>)
No1A == PyStr(<<"1", "A">>)
Tide == PyStr(<<"T", "i", "d", "e">>)
Diet == PyStr(<<"D", "i", "e", "t">>)

SimilarityUploads ==
  { Invoice(No1A1, DMY(1, 1, 2025), Tide, GstX, Pen(10), PyFloat(100)),
    Invoice(NoAB1, DMY(1, 3, 2025), Diet, GstY, Ink(10), PyFloat(200)),
    Invoice(No1AB, DMY(1, 5, 2025), Acme, GstZ, Pen(10), PyFloat(300)),
    Invoice(NoB1B, DMY(1, 7, 2025), Tide, GstY, Ink(10), PyFloat(400)),
    Invoice(NoA1BA, DMY(1, 9, 2025), Diet, GstZ, Pen(10), PyFloat(500)),
    Invoice(No1A, DMY(1, 11, 2025), Acme, GstX, Ink(10), PyFloat(600)),
    NoTotal }

\* Invoices of one vendor months apart: the third has the total of the
\* first within 5% and nothing else in common with it, and the line items
\* of the second at another total; the fourth has the number of the first
\* but for a character, at another total and with other items.
TaxIdUploads ==
  { Invoice(NoA, DMY(1, 1, 2025), Acme, GstX, Ink(10), PyFloat(100)),
    Invoice(NoD4, DMY(1, 3, 2025), Acme, GstX, Pen(10), PyFloat(200)),
    Invoice(NoC9, DMY(1, 5, 2025), Acme, GstX, Pen(10), PyFloat(103)),
    Invoice(NoA10234, DMY(1, 7, 2025), Acme, GstX, Pen(10), PyFloat(400)),
    NoTotal }

\* Three invoices of one vendor with totals 100, 200 and 2000, and an
\* invoice of that vendor for 2050 with items under an HSN code the vendor
\* has not used, dated the day after the third or two months later.
GhostUploads ==
  { Invoice(NoB7, DMY(1, 1, 2025), Acme, GstX, PenInkCap(10), PyFloat(100)),
    Invoice(NoC9, DMY(15, 1, 2025), Acme, GstX, PenBoxCup(10), PyFloat(200)),
    Invoice(NoD4, DMY(31, 1, 2025), Acme, GstX, PenFigGum(10), PyFloat(2000)),
    Invoice(NoE5, DMY(1, 2, 2025), Acme, GstX, JamNutOat("H9", 5), PyFloat(2050)),
    Invoice(NoE5, DMY(1, 4, 2025), Acme, GstX, JamNutOat("H9", 5), PyFloat(2050)),
    NoTotal }

\* Invoices of one vendor for the same item months apart: a credit note
\* for -50, invoices for 0 and for 50, and one without a total.
TotalUploads ==
  { Invoice(NoB7, DMY(1, 1, 2025), Acme, GstX, Pen(10), PyFloat(0 - 50)),
    Invoice(NoC9, DMY(1, 3, 2025), Acme, GstX, Pen(10), PyFloat(0)),
    Invoice(NoD4, DMY(1, 5, 2025), Acme, GstX, Pen(10), PyFloat(50)),
    Invoice(NoE5, DMY(1, 7, 2025), Acme, GstX, Pen(10), PyNone) }

\* An invoice, and invoices without a date or with a text that is no date
\* in place of it, which resemble the first in number and total, in tax
\* ID, items and total, or in vendor, items and total.
Soon == PyStr(<<"s", "o", "o", "n">>)

UndatedUploads ==
  { Invoice(NoA, DMY(1, 1, 2025), Acme, GstX, Pen(10), PyFloat(100)),
    Invoice(NoC, PyNone, Acme, GstY, Ink(10), PyFloat(100)),
    Invoice(NoB7, Soon, Acme, GstX, Pen(10), PyFloat(104)),
    Invoice(NoC9, PyNone, Acme, GstZ, Pen(10), PyFloat(100)),
    NoTotal }

\* Uploads whose invoice numbers are numerals.
NumericUploads ==
  { Invoice(PyStr(<<"0", "1">>), PyStr(<<"1", "-", "0", "1", "-", "2", "0", "2", "5">>),
            Acme, GstX, Pen(10), PyFloat(100)),
    Invoice(PyStr(<<"0">>), DMY(11, 1, 2025), Acme, GstX, Ink(10), PyFloat(100)),
    Invoice(NoB7, DMY(1, 3, 2025), Bolt, GstY, Pen(10), PyFloat(100)),
    Invoice(PyStr(<<"7">>), DMY(1, 3, 2025), Bolt, GstY, Ink(10), PyFloat(300)),
    NoTotal }

(***************************************************************************)
(* Specifications: a run of the batch loop from a missing ledger file      *)
(***************************************************************************)
InitWith(files) ==
  /\ uploads = files
  /\ fileExists = FALSE
  /\ hasHeader = FALSE
  /\ ledger = <<>>
  /\ flaggedRows = 0
  /\ processed = 0
  /\ pc = "idle"
  /\ parsed_data = NoInvoice
  /\ all_flags = <<>>
  /\ historical_findings = NoFindings
  /\ processed2 = 0
  /\ pc2 = "idle"
  /\ parsed_data2 = NoInvoice
  /\ all_flags2 = <<>>
  /\ historical_findings2 = NoFindings

Init == InitWith(DuplicateUploads)

Spec == Init /\ [][Next]_vars

InitVendor == InitWith(VendorUploads)

SpecVendor == InitVendor /\ [][Next]_vars

InitWidget == InitWith(WidgetUploads)

SpecWidget == InitWidget /\ [][Next]_vars

InitRank == InitWith(RankUploads)

SpecRank == InitRank /\ [][Next]_vars

\* A batch that starts from an empty ledger in any of its forms: the file
\* missing, a file without content, a file with the header line only.
InitEmpty ==
  /\ uploads = RankUploads
  /\ fileExists \in BOOLEAN
  /\ hasHeader \in BOOLEAN
  /\ hasHeader => fileExists
  /\ ledger = <<>>
  /\ flaggedRows = 0
  /\ processed = 0
  /\ pc = "idle"
  /\ parsed_data = NoInvoice
  /\ all_flags = <<>>
  /\ historical_findings = NoFindings
  /\ processed2 = 0
  /\ pc2 = "idle"
  /\ parsed_data2 = NoInvoice
  /\ all_flags2 = <<>>
  /\ historical_findings2 = NoFindings

SpecEmpty == InitEmpty /\ [][Next]_vars

\* Two sessions given the same files.
SessionUploads ==
  { Invoice(NoB7, DMY(1, 1, 2025), Acme, GstX, PenInkCap(10), PyFloat(100)),
    NoTotal }

InitTwoSessions == InitWith(SessionUploads)

SpecTwoSessions == InitTwoSessions /\ [][NextTwoSessions]_vars

InitSimilarity == InitWith(SimilarityUploads)

SpecSimilarity == InitSimilarity /\ [][Next]_vars

InitTaxId == InitWith(TaxIdUploads)

SpecTaxId == InitTaxId /\ [][Next]_vars

InitGhost == InitWith(GhostUploads)

SpecGhost == InitGhost /\ [][Next]_vars

InitTotals == InitWith(TotalUploads)

SpecTotals == InitTotals /\ [][Next]_vars

InitUndated == InitWith(UndatedUploads)

SpecUndated == InitUndated /\ [][Next]_vars

InitNumeric == InitWith(NumericUploads)

SpecNumeric == InitNumeric /\ [][Next]_vars

(***************************************************************************)
(* Properties                                                              *)
(*                                                                         *)
(* They are stated on the states in which a file has been screened and not *)
(* yet saved: parsed_data is the candidate, historical_findings the report *)
(* and ledger the file the candidate was screened against.                 *)
(***************************************************************************)
Report == historical_findings

\* run_historical_checks has returned after loading the ledger.
Screened == pc = "save" /\ Report.passes # <<>>

Rows == 1..Len(ledger)

\* The candidate, and ledger record i as loaded.
N == new_invoice_of(parsed_data)

E(i) == get_existing_from_row(read_csv(ledger)[i])

NumberSim(i) == text_similarity(N.invoiceNumber, E(i).invoiceNumber)

VendorSim(i) == text_similarity(N.vendorName, E(i).vendorName)

LineSim(i) == lineitem_similarity(N.lineItems, E(i).lineItems)

TotalDiff(i) == RelDiff(N.totalAmountFloat, E(i).totalAmountFloat.n)

DatesWithin(i, days) ==
  LET d == date_diff_days(N.date, E(i).date) IN d # NaNDays /\ d <= days

SameTaxId(i) == normalize_text(N.gstNumber) = normalize_text(E(i).gstNumber)

SameFingerprint(i) == compute_hash(E(i)) = compute_hash(N)

\* The candidate and record i agree on tax ID, invoice number, date and total.
SameFourFields(i) ==
  /\ N.gstNumber = E(i).gstNumber
  /\ N.invoiceNumber = E(i).invoiceNumber
  /\ N.date = E(i).date
  /\ N.totalAmountFloat = E(i).totalAmountFloat

Ran(pass) == \E k \in DOMAIN Report.passes : Report.passes[k] = pass

HasReason(text) == \E k \in DOMAIN Report.reasons : Report.reasons[k].text = text

\* Record i is among the near-duplicates, emitted by the pass whose special
\* reason is given.
Emitted(i, special) ==
  \E k \in DOMAIN Report.near_duplicates :
    /\ Report.near_duplicates[k].db_row_index = i - 1
    /\ Report.near_duplicates[k].reasons[1] = special

EmittedAtAll(i) ==
  \E k \in DOMAIN Report.near_duplicates : Report.near_duplicates[k].db_row_index = i - 1

\* C1: a candidate whose tax ID, invoice number, date and total are those of
\* a loaded ledger record is reported EXACT_DUPLICATE, exact_duplicate is
\* true, and exact_duplicate_match is the index of a record with those four
\* fields.
C1_ExactDuplicateIndexed ==
  (Screened /\ \E i \in Rows : SameFourFields(i))
    => /\ Report.overall_flag = "EXACT_DUPLICATE"
       /\ Report.exact_duplicate
       /\ Report.exact_duplicate_match + 1 \in Rows
       /\ SameFourFields(Report.exact_duplicate_match + 1)

\* C1, the index left open: such a candidate is reported
\* EXACT_DUPLICATE with exact_duplicate true and some record's index.
C1_ExactDuplicateFlagged ==
  (Screened /\ \E i \in Rows : SameFourFields(i))
    => /\ Report.overall_flag = "EXACT_DUPLICATE"
       /\ Report.exact_duplicate
       /\ Report.exact_duplicate_match + 1 \in Rows

\* C2: when a ledger record at any position has the candidate's fingerprint,
\* the report is EXACT_DUPLICATE, only the exact pass has run,
\* near_duplicates, ghost_signals and line_item_price_anomalies are empty,
\* and the save that follows leaves the ledger as it is.
C2_ExactFirst ==
  [][(Screened /\ \E i \in Rows : SameFingerprint(i))
       => /\ Report.overall_flag = "EXACT_DUPLICATE"
          /\ Report.passes = <<"exact">>
          /\ Report.near_duplicates = <<>>
          /\ Report.ghost_signals = <<>>
          /\ Report.line_item_price_anomalies = <<>>
          /\ ledger' = ledger]_vars

\* The fingerprint is that of the last of two records only, and the ledger
\* also holds a record the invoice-number pass would have matched.
C2_Witness ==
  /\ Screened
  /\ Len(ledger) = 2
  /\ ~SameFingerprint(1)
  /\ SameFingerprint(2)
  /\ AtLeast(NumberSim(1), 95) /\ AtMostPct(TotalDiff(1), 5)

\* C3: the ledger changes only by the append of the candidate whose report
\* is CLEAN; its records are never modified or removed, and a candidate with
\* another report is never appended.
C3_LedgerCleanOnly ==
  [][/\ Len(ledger') >= Len(ledger)
     /\ SubSeq(ledger', 1, Len(ledger)) = ledger
     /\ ledger' # ledger
          => /\ pc = "save"
             /\ Report.overall_flag = "CLEAN"
             /\ ledger' = Append(ledger, _get_row_data(parsed_data))
     /\ (pc # "idle" /\ Report.overall_flag # "CLEAN") => ledger' = ledger]_vars

\* A ledger of two records after four files: one of the others was flagged,
\* one failed.
C3_Witness ==
  /\ Len(ledger) = 2
  /\ flaggedRows = 1
  /\ processed = 4
  /\ pc = "idle"

\* The conditions of the three passes, on ledger record i.
NumberQualifies(i) ==
  /\ AtLeast(NumberSim(i), 95)
  /\ AtMostPct(TotalDiff(i), 5)
  /\ (LineAtLeast(LineSim(i), 50) \/ SameTaxId(i) \/ DatesWithin(i, 3))

NumberUncorroborated(i) ==
  /\ AtLeast(NumberSim(i), 95)
  /\ AtMostPct(TotalDiff(i), 5)
  /\ ~LineAtLeast(LineSim(i), 50)
  /\ ~SameTaxId(i)
  /\ ~DatesWithin(i, 3)

DateQualifies(i) ==
  /\ DatesWithin(i, 1)
  /\ AtMostPct(TotalDiff(i), 5)
  /\ AtLeast(VendorSim(i), 75)
  /\ (LineAtLeast(LineSim(i), 40) \/ SameTaxId(i))

TaxIdQualifies(i) ==
  /\ SameTaxId(i)
  /\ \/ AtMostPct(TotalDiff(i), 5)
     \/ AtLeast(NumberSim(i), 80)
     \/ LineAtLeast(LineSim(i), 60)
  /\ ~(~LineAtLeast(LineSim(i), 30) /\ ~AtLeast(NumberSim(i), 90))

TaxIdStrong(i) == AtLeast(NumberSim(i), 90) \/ AtMostPct(TotalDiff(i), 2)

\* C4: with no exact duplicate, when some record has invoice-number
\* similarity >= 95, total difference <= 0.05 and a corroborating signal,
\* the report is HIGH_RISK_NEAR_DUPLICATE, near_duplicates holds the first
\* such record and nothing else, the reasons include "Invoice number
\* extremely similar + totals match", and no date, tax-ID, ghost or price
\* pass has run.
C4_NumberPassReturnsFirst ==
  (/\ Screened
   /\ ~\E i \in Rows : SameFingerprint(i)
   /\ \E i \in Rows : NumberQualifies(i))
    => LET first == CHOOSE i \in Rows :
                      NumberQualifies(i) /\ \A j \in Rows : NumberQualifies(j) => i <= j
       IN /\ Report.overall_flag = "HIGH_RISK_NEAR_DUPLICATE"
          /\ Len(Report.near_duplicates) = 1
          /\ Emitted(first, "Invoice number nearly identical and amounts match")
          /\ HasReason("Invoice number extremely similar + totals match -> high risk")
          /\ Report.passes = <<"exact", "invoice_number">>
          /\ Report.ghost_signals = <<>>
          /\ Report.line_item_price_anomalies = <<>>

\* The second and the third of three records qualify, the second through
\* its line items alone.
C4_Witness ==
  /\ Screened
  /\ Report.overall_flag = "HIGH_RISK_NEAR_DUPLICATE"
  /\ Len(ledger) = 3
  /\ ~NumberQualifies(1) /\ NumberQualifies(2) /\ NumberQualifies(3)

\* C5: a record with invoice-number similarity >= 95 and total difference
\* <= 0.05 but no corroborating signal is in no near-duplicate entry of the
\* report, whichever pass made it; and when every record of the ledger is
\* such a record the report is CLEAN.
C5_UncorroboratedSuppressed ==
  Screened
    => /\ \A i \in Rows : NumberUncorroborated(i) => ~EmittedAtAll(i)
       /\ (\A i \in Rows : NumberUncorroborated(i)) => Report.overall_flag = "CLEAN"

\* One record is uncorroborated and passed over while another record of the
\* ledger makes the report a near-duplicate one.
C5_Witness ==
  /\ Screened
  /\ \E i \in Rows : NumberUncorroborated(i)
  /\ Report.near_duplicates # <<>>

\* C6: when the date pass runs, every record with date difference <= 1,
\* total difference <= 0.05, vendor similarity >= 75 and (line-item
\* similarity >= 40 or the same tax ID) is emitted by it; if there is one,
\* the tax-ID pass has run after it and the report is
\* HIGH_RISK_NEAR_DUPLICATE when a record the tax-ID pass emits is a strong
\* match, MEDIUM_RISK_POSSIBLE_DUPLICATE otherwise.
C6_DatePassEmitsAll ==
  (Screened /\ Ran("date"))
    => /\ \A i \in Rows : DateQualifies(i) => Emitted(i, "Dates and totals very close")
       /\ (\E i \in Rows : DateQualifies(i))
            => /\ Ran("gstin")
               /\ HasReason("Invoice date and totals close -> possible duplicate")
               /\ Report.overall_flag =
                    IF \E j \in Rows : TaxIdQualifies(j) /\ TaxIdStrong(j)
                    THEN "HIGH_RISK_NEAR_DUPLICATE"
                    ELSE "MEDIUM_RISK_POSSIBLE_DUPLICATE"

\* Two records qualify in the date pass and the second of them is a strong
\* tax-ID match.
C6_Witness ==
  /\ Screened
  /\ Len(ledger) = 2
  /\ DateQualifies(1) /\ DateQualifies(2)
  /\ ~TaxIdQualifies(1)
  /\ TaxIdQualifies(2) /\ TaxIdStrong(2)
  /\ Report.overall_flag = "HIGH_RISK_NEAR_DUPLICATE"

\* C7: when the tax-ID pass emits a record, the report is
\* HIGH_RISK_NEAR_DUPLICATE, made by the tax-ID pass as its last step, if
\* the record is a strong match, and MEDIUM_RISK_POSSIBLE_DUPLICATE or
\* HIGH_RISK_NEAR_DUPLICATE otherwise.
C7_TaxIdPassEscalates ==
  Screened
    => \A i \in Rows :
         Emitted(i, "GSTIN matches and supporting signals present")
           => IF TaxIdStrong(i)
              THEN /\ Report.overall_flag = "HIGH_RISK_NEAR_DUPLICATE"
                   /\ Report.passes[Len(Report.passes)] = "gstin"
              ELSE Report.overall_flag \in
                     {"MEDIUM_RISK_POSSIBLE_DUPLICATE", "HIGH_RISK_NEAR_DUPLICATE"}

\* The three ghost signals, on the candidate and the loaded ledger.
VendorRows == {i \in Rows : SameTaxId(i)}

TaxIdUnseen == VendorRows = {}

HsnUnseenForVendor ==
  /\ VendorRows # {}
  /\ \E h \in HsnSet(N.lineItems) : \A i \in VendorRows : h \notin HsnSet(E(i).lineItems)

\* The totals of the vendor's records, in ledger order.
RECURSIVE TotalsOf(_)
TotalsOf(rows) ==
  IF rows = {} THEN <<>>
  ELSE LET i == CHOOSE j \in rows : \A h \in rows : j <= h
       IN <<E(i).totalAmountFloat.n>> \o TotalsOf(rows \ {i})

TotalDeviant ==
  /\ Cardinality(VendorRows) >= 3
  /\ N.totalAmountFloat.k = "float"
  /\ TwiceMedian(TotalsOf(VendorRows)) > 0
  /\ \/ 2 * N.totalAmountFloat.n > 10 * TwiceMedian(TotalsOf(VendorRows))
     \/ 20 * N.totalAmountFloat.n < TwiceMedian(TotalsOf(VendorRows))

SignalCount ==
  (IF TaxIdUnseen THEN 1 ELSE 0) + (IF HsnUnseenForVendor THEN 1 ELSE 0)
    + (IF TotalDeviant THEN 1 ELSE 0)

C9_UnseenTaxIdAlone ==
  (Screened /\ TaxIdUnseen)
    => /\ Report.ghost_signals = <<>>
       /\ Report.overall_flag # "POTENTIAL_GHOST_INVOICE"
       /\ ~HasReason("GSTIN not previously seen in historical data")
       /\ (/\ ~Report.exact_duplicate
           /\ Report.near_duplicates = <<>>
           /\ Report.line_item_price_anomalies = <<>>)
            => Report.overall_flag = "CLEAN"

\* An unseen tax ID with HSN codes no record has and a total of at least ten
\* times every total of a three-record ledger.
C9_Witness ==
  /\ Screened
  /\ TaxIdUnseen
  /\ Len(ledger) = 3
  /\ \A i \in Rows : /\ HsnSet(N.lineItems) \cap HsnSet(E(i).lineItems) = {}
                     /\ N.totalAmountFloat.n >= 10 * E(i).totalAmountFloat.n
  /\ Report.overall_flag = "CLEAN"

\* The ledger purchases that count for item k of the candidate: same vendor
\* tax ID, same normalised description, same HSN code, dated strictly before
\* the candidate.  A purchase is <<record, item>>.
PriorPurchases(k) ==
  {p \in Rows \X (1..3) :
     /\ p[2] <= Len(E(p[1]).lineItems)
     /\ SameTaxId(p[1])
     /\ normalize_text(PyStr(E(p[1]).lineItems[p[2]].description))
          = normalize_text(PyStr(N.lineItems[k].description))
     /\ E(p[1]).lineItems[p[2]].hsnSac = N.lineItems[k].hsnSac
     /\ parse_date(E(p[1]).date) # NoDate
     /\ parse_date(N.date) # NoDate
     /\ DayNumber(parse_date(E(p[1]).date)) < DayNumber(parse_date(N.date))}

MostRecent(k) ==
  CHOOSE p \in PriorPurchases(k) :
    \A q \in PriorPurchases(k) :
      DayNumber(parse_date(E(q[1]).date)) <= DayNumber(parse_date(E(p[1]).date))

LastPrice(k) == E(MostRecent(k)[1]).lineItems[MostRecent(k)[2]].unitPrice

DaysSince(k) == DaysBetween(parse_date(N.date), parse_date(E(MostRecent(k)[1]).date))

\* The report has a price anomaly for item k.
PriceReason(k) ==
  \E a \in DOMAIN Report.line_item_price_anomalies :
    Report.line_item_price_anomalies[a].detail[1] = N.lineItems[k].description

\* C10 as stated: when the price stage runs, an item without a prior
\* purchase has no reason; an item whose most recent prior purchase is at
\* most 30 days old has a reason if and only if its unit price is above 1.20
\* times the price of that purchase.
C10_PriceAgainstMostRecent ==
  (Screened /\ Ran("price"))
    => \A k \in DOMAIN N.lineItems :
         IF PriorPurchases(k) = {} THEN ~PriceReason(k)
         ELSE DaysSince(k) <= 30
                => (PriceReason(k) <=> 100 * N.lineItems[k].unitPrice > 120 * LastPrice(k))

\* C10, amended: when the price stage runs, an item without a prior purchase
\* has no reason; an item whose most recent prior purchase is at most 30
\* days old has a reason if and only if the price of that purchase is
\* positive and its unit price is above 1.20 times that price, and the
\* reason gives that price.
C10_PriceAgainstMostRecentPositive ==
  (Screened /\ Ran("price"))
    => \A k \in DOMAIN N.lineItems :
         IF PriorPurchases(k) = {} THEN ~PriceReason(k)
         ELSE DaysSince(k) <= 30
                => /\ PriceReason(k)
                        <=> /\ LastPrice(k) > 0
                            /\ 100 * N.lineItems[k].unitPrice > 120 * LastPrice(k)
                   /\ \A a \in DOMAIN Report.line_item_price_anomalies :
                        Report.line_item_price_anomalies[a].detail[1]
                            = N.lineItems[k].description
                          => Report.line_item_price_anomalies[a].detail[4] = LastPrice(k)

\* The pen was bought twice before; its price is above 1.20 times the older
\* price but not above 1.20 times the most recent one, and the report is
\* CLEAN.
C10_Witness ==
  /\ Screened /\ Ran("price")
  /\ Cardinality(PriorPurchases(1)) = 2
  /\ DaysSince(1) <= 30
  /\ \E p \in PriorPurchases(1) :
       100 * N.lineItems[1].unitPrice > 120 * E(p[1]).lineItems[p[2]].unitPrice
  /\ 100 * N.lineItems[1].unitPrice <= 120 * LastPrice(1)
  /\ Report.overall_flag = "CLEAN"

\* The price-anomaly reasons of the report, of which the message gives the
\* overage in tenths of a percent (detail[6]) and the acceptable limit in
\* hundredths (detail[7]).
PriceReasons ==
  {k \in DOMAIN Report.reasons : Report.reasons[k].text = "Price Anomaly"}

\* The vendor has three ledger records, the widget (HSN 8471) of the
\* candidate costs 200, its most recent prior purchase was at 100 thirty
\* days before, and neither the duplicate passes nor the ghost heuristic
\* have found anything.
WidgetCase ==
  /\ Screened /\ Ran("price")
  /\ Cardinality(VendorRows) = 3
  /\ N.lineItems[1].hsnSac = "8471"
  /\ N.lineItems[1].unitPrice = 200
  /\ PriorPurchases(1) # {}
  /\ LastPrice(1) = 100
  /\ DaysSince(1) = 30
  /\ ~Report.exact_duplicate
  /\ Report.near_duplicates = <<>>
  /\ Report.ghost_signals = <<>>

\* C11 as stated: in the widget case the report has one price-anomaly
\* reason, whose limit is about 120 and whose overage is roughly 100%
\* (between 90% and 110%).
C11_WidgetOverageHundred ==
  WidgetCase
    => /\ Cardinality(PriceReasons) = 1
       /\ \A k \in PriceReasons :
            /\ Report.reasons[k].detail[7] \in 11900..12100
            /\ Report.reasons[k].detail[6] \in 900..1100

\* C11, amended: in the widget case the report is PRICE_ANOMALY and has one
\* price-anomaly reason, for the widget, whose limit is 120.00 and whose
\* overage, taken on the limit, is 66.7%.
C11_WidgetOverageOnLimit ==
  WidgetCase
    => /\ Report.overall_flag = "PRICE_ANOMALY"
       /\ Cardinality(PriceReasons) = 1
       /\ \A k \in PriceReasons :
            /\ Report.reasons[k].detail[1] = N.lineItems[1].description
            /\ Report.reasons[k].detail[7] = 12000
            /\ Report.reasons[k].detail[6] = 667

\* The widget case after three clean uploads of the vendor.
C11_Witness ==
  /\ WidgetCase
  /\ Len(ledger) = 3
  /\ PriceReasons # {}

\* Entry x does not come after entry y in the order (invoice-number
\* similarity descending, line-item similarity descending, total difference
\* ascending): the line-item similarities are cosines dot / sqrt(n1 * n2).
CosineLess(a, b) ==
  IF a.dot = 0 \/ b.dot = 0 THEN a.dot < b.dot
  ELSE a.dot * a.dot * b.n1 * b.n2 < b.dot * b.dot * a.n1 * a.n2

InRankOrder(x, y) ==
  \/ x.invoice_no_sim > y.invoice_no_sim
  \/ /\ x.invoice_no_sim = y.invoice_no_sim
     /\ \/ CosineLess(y.lineitems_sim, x.lineitems_sim)
        \/ /\ ~CosineLess(x.lineitems_sim, y.lineitems_sim)
           /\ x.total_rel_diff <= y.total_rel_diff

NearDuplicatesRanked ==
  \A k \in 1..(Len(Report.near_duplicates) - 1) :
    InRankOrder(Report.near_duplicates[k].features, Report.near_duplicates[k + 1].features)

\* The flag the confidence of the top entry maps to.
FlagOfTopConfidence ==
  IF ConfidenceAtLeast(Report.near_duplicates[1].features, 9000)
  THEN "HIGH_RISK_NEAR_DUPLICATE"
  ELSE IF ConfidenceAtLeast(Report.near_duplicates[1].features, 7500)
  THEN "MEDIUM_RISK_POSSIBLE_DUPLICATE"
  ELSE "LOW_RISK_RECHECK"

\* Near-duplicates were collected and no pass, the ghost and price stages
\* included, has returned.
Ranked == Screened /\ Ran("rank") /\ Report.near_duplicates # <<>>

\* C12 as stated: after ranking, the near-duplicates are in rank order and
\* the report's flag is the one the top entry's confidence maps to.
C12_FlagFromTopConfidence ==
  Ranked => NearDuplicatesRanked /\ Report.overall_flag = FlagOfTopConfidence

\* C12, amended: after ranking, the near-duplicates are in rank order; the
\* report's flag is the one the top entry's confidence maps to when the date
\* pass has emitted nothing, and MEDIUM_RISK_POSSIBLE_DUPLICATE, as the date
\* pass set it, otherwise.
C12_FlagFromTopConfidenceIfClean ==
  Ranked
    => /\ NearDuplicatesRanked
       /\ Report.overall_flag =
            IF \E i \in Rows : Emitted(i, "Dates and totals very close")
            THEN "MEDIUM_RISK_POSSIBLE_DUPLICATE"
            ELSE FlagOfTopConfidence

\* Two records were emitted by the tax-ID pass, the second before the first
\* in rank order, and the top entry's confidence makes the report
\* MEDIUM_RISK_POSSIBLE_DUPLICATE.
C12_Witness ==
  /\ Ranked
  /\ Len(Report.near_duplicates) = 2
  /\ Report.near_duplicates[1].db_row_index = 1
  /\ Report.near_duplicates[2].db_row_index = 0
  /\ ~InRankOrder(Report.near_duplicates[2].features, Report.near_duplicates[1].features)
  /\ ~(\E i \in Rows : Emitted(i, "Dates and totals very close"))
  /\ Report.overall_flag = "MEDIUM_RISK_POSSIBLE_DUPLICATE"

\* No detector fired: no exact duplicate, no near-duplicate, no ghost signal,
\* no price anomaly.
NothingFired ==
  /\ ~Report.exact_duplicate
  /\ Report.near_duplicates = <<>>
  /\ Report.ghost_signals = <<>>
  /\ Report.line_item_price_anomalies = <<>>

\* C13: a report over a ledger that was read has the flag CLEAN exactly when
\* no detector fired.
C13_CleanIffNothingFired ==
  Screened => (Report.overall_flag = "CLEAN" <=> NothingFired)

\* The only finding is a near-duplicate of the tax-ID pass, which sets no
\* flag itself: the flag comes from the ranking.
C13_Witness ==
  /\ Ranked
  /\ ~NothingFired
  /\ ~(\E i \in Rows : Emitted(i, "Dates and totals very close"))
  /\ Report.ghost_signals = <<>>
  /\ Report.line_item_price_anomalies = <<>>
  /\ Report.overall_flag = "LOW_RISK_RECHECK"

\* The ledger the candidate was screened against has no record: the file is
\* missing, has no content or has the header line only, and reading it did
\* not fail.
EmptyLedger ==
  /\ pc = "save"
  /\ Report.status = "returned"
  /\ Report.overall_flag # "PARSE_ERROR"
  /\ ledger = <<>>
  /\ ~HasReason("Failed to read historical data")

\* C14 as stated: screening against an empty ledger in any form gives CLEAN
\* with a reason that mentions that there is no historical data, and no error.
C14_EmptyLedgerNoHistoryReason ==
  EmptyLedger
    => /\ Report.overall_flag = "CLEAN"
       /\ HasReason("No historical data to compare against. New invoice will be added to history.")

\* C14, amended: screening against an empty ledger in any form gives CLEAN
\* with one reason and no error; the reason tells of no historical data when
\* the file is missing, of an empty file when it has no content, and of no
\* findings when it has the header line only.
C14_EmptyLedgerClean ==
  EmptyLedger
    => /\ Report.overall_flag = "CLEAN"
       /\ Len(Report.reasons) = 1
       /\ Report.reasons[1].text =
            IF ~fileExists
            THEN "No historical data to compare against. New invoice will be added to history."
            ELSE IF ~hasHeader
            THEN "Historical data file is empty. New invoice will be added to history."
            ELSE "No duplicates, anomalies, or ghost signals found."

\* A candidate was screened against a ledger file with the header line only.
C14_Witness ==
  /\ EmptyLedger
  /\ fileExists
  /\ hasHeader
  /\ Ran("rank")
  /\ Report.overall_flag = "CLEAN"

\* C15: whatever the candidate and the records of a ledger that was read,
\* run_historical_checks returns a report: no exception leaves it.
C15_NoExceptionEscapes == Report.status # "raised"

C17_AppendOnlyAfterClean ==
  [][(ledger' # ledger \/ fileExists' # fileExists \/ hasHeader' # hasHeader)
       => /\ pc = "save"
          /\ Report.overall_flag = "CLEAN"
          /\ ledger' = Append(ledger, _get_row_data(parsed_data))]_vars

\* A candidate was screened while the ledger file was missing and found
\* CLEAN: the file is still missing, the caller has yet to save.
C17_Witness ==
  /\ pc = "save"
  /\ Report.overall_flag = "CLEAN"
  /\ all_flags = <<>>
  /\ ~fileExists
  /\ ledger = <<>>

\* C18: the screening of one caller and the save that follows it are not
\* interleaved with those of another, so no invoice the sessions both submit
\* is appended by both: no two records of the ledger are the same invoice.
C18_NoInvoiceAppendedTwice ==
  \A i, j \in Rows : ledger[i] = ledger[j] => i = j

\* The candidate and record i agree on the text compute_hash formats of tax
\* ID, invoice number, date and total, field by field.
SameFieldTexts(i) ==
  /\ Format(N.gstNumber) = Format(E(i).gstNumber)
  /\ Format(N.invoiceNumber) = Format(E(i).invoiceNumber)
  /\ Format(N.date) = Format(E(i).date)
  /\ Format(N.totalAmountFloat) = Format(E(i).totalAmountFloat)

\* C19: the fingerprints of the candidate and of a ledger record are equal
\* exactly when the two agree on each of the four fields (the digest taken
\* as free of collisions).
C19_FingerprintOfFourFields ==
  Screened => \A i \in Rows : SameFingerprint(i) <=> SameFieldTexts(i)

\* text_similarity of a value with itself is 100 unless the value normalizes
\* to the empty string.
SelfSimilar(v) ==
  normalize_text(v) # <<>> => text_similarity(v, v).num = text_similarity(v, v).den

\* C20: the similarity the passes compute between a field of the candidate
\* and that field of a ledger record, invoice number or vendor name, is the
\* similarity of the two taken in the other order, and each such value has
\* similarity 100 with itself.
C20_SimilaritySymmetric ==
  Screened
    => \A i \in Rows :
         /\ NumberSim(i) = text_similarity(E(i).invoiceNumber, N.invoiceNumber)
         /\ VendorSim(i) = text_similarity(E(i).vendorName, N.vendorName)
         /\ SelfSimilar(N.invoiceNumber) /\ SelfSimilar(E(i).invoiceNumber)
         /\ SelfSimilar(N.vendorName) /\ SelfSimilar(E(i).vendorName)

\* The tax-ID pass took up record i: it ran, and no record before i ended it
\* with a high-risk verdict.
TaxIdPassReached(i) ==
  /\ Ran("gstin")
  /\ \A j \in 1..(i - 1) : ~(TaxIdQualifies(j) /\ TaxIdStrong(j))

\* Record i is one the tax-ID pass takes for another invoice of the vendor.
TaxIdSuppressed(i) == ~LineAtLeast(LineSim(i), 30) /\ ~AtLeast(NumberSim(i), 90)

\* C21: the tax-ID pass emits a record it takes up exactly when the record
\* has the candidate's tax ID, at least one of total difference <= 0.05,
\* invoice-number similarity >= 80 and line-item similarity >= 60, and is not
\* suppressed; a record with line-item similarity < 30 and invoice-number
\* similarity < 90 is never emitted by it, whatever its total.
C21_TaxIdPassEmits ==
  Screened
    => \A i \in Rows :
         /\ TaxIdPassReached(i)
              => (Emitted(i, "GSTIN matches and supporting signals present")
                    <=> /\ SameTaxId(i)
                        /\ \/ AtMostPct(TotalDiff(i), 5)
                           \/ AtLeast(NumberSim(i), 80)
                           \/ LineAtLeast(LineSim(i), 60)
                        /\ ~TaxIdSuppressed(i))
         /\ TaxIdSuppressed(i)
              => ~Emitted(i, "GSTIN matches and supporting signals present")

\* The tax-ID pass took up a record of the candidate's vendor whose total is
\* within 5% and skipped it as suppressed, and emitted another.
C21_Witness ==
  /\ Screened
  /\ \E i \in Rows :
       /\ TaxIdPassReached(i)
       /\ SameTaxId(i)
       /\ AtMostPct(TotalDiff(i), 5)
       /\ TaxIdSuppressed(i)
       /\ ~EmittedAtAll(i)
  /\ \E i \in Rows : Emitted(i, "GSTIN matches and supporting signals present")

\* The date pass emitted a record, which sets MEDIUM_RISK_POSSIBLE_DUPLICATE.
DatePassEmitted == \E i \in Rows : Emitted(i, "Dates and totals very close")

\* C22: when the ghost detection fires, its reasons are the ghost signals of
\* the report and the last of its reasons, the report is returned at once,
\* and the flag is POTENTIAL_GHOST_INVOICE unless a pass had set one: a
\* MEDIUM_RISK_POSSIBLE_DUPLICATE set before stays.
C22_GhostKeepsEarlierFlag ==
  (Screened /\ Report.ghost_signals # <<>>)
    => /\ Len(Report.ghost_signals) >= 2
       /\ Len(Report.reasons) >= Len(Report.ghost_signals)
       /\ SubSeq(Report.reasons, Len(Report.reasons) - Len(Report.ghost_signals) + 1,
                 Len(Report.reasons)) = Report.ghost_signals
       /\ Report.passes[Len(Report.passes)] = "ghost"
       /\ Report.overall_flag =
            IF DatePassEmitted THEN "MEDIUM_RISK_POSSIBLE_DUPLICATE"
            ELSE "POTENTIAL_GHOST_INVOICE"

\* The ghost detection fired on a candidate the date pass had flagged.
C22_Witness ==
  /\ Screened
  /\ Report.ghost_signals # <<>>
  /\ DatePassEmitted
  /\ Report.overall_flag = "MEDIUM_RISK_POSSIBLE_DUPLICATE"

\* The relative difference of candidate total n (a Python value) and ledger
\* total e in millionths: |n - e| / e when e > 0, 0 when both are zero, 1
\* in every other case.
RelativeDifference(n, e) ==
  IF e > 0 /\ n.k # "none"
  THEN ((IF n.n >= e THEN n.n - e ELSE e - n.n) * 1000000) \div e
  ELSE IF e = 0 /\ n.k # "none" /\ n.n = 0 THEN 0
  ELSE 1000000

\* C23: the total difference a pass works with for a record it emits, which
\* the entry carries as total_rel_diff, is |n - e| / e when the ledger total
\* e is positive, 0 when both totals are zero, and 1 in every other case;
\* no pass fails on a total.
C23_TotalDifference ==
  /\ Report.status # "raised"
  /\ Screened
       => \A k \in DOMAIN Report.near_duplicates :
            Report.near_duplicates[k].features.total_rel_diff =
              RelativeDifference(N.totalAmountFloat,
                E(Report.near_duplicates[k].db_row_index + 1).totalAmountFloat.n)

\* The days between the dates of the candidate and of record i (NaNDays when
\* one of them is no date).
DateDiff(i) == date_diff_days(N.date, E(i).date)

\* Of the confidence of the candidate against record i, the part without the
\* line items, in millionths: 0.35 * number similarity / 100 + 0.20 * date
\* closeness + 0.15 * tax-ID match + 0.10 * (1 - min(1, total difference)),
\* with date closeness 1 up to 2 days and max(0, 1 - days / 30) beyond.
ConfidenceWithoutItems(i) ==
  (350000 * NumberSim(i).num) \div NumberSim(i).den
    + (IF DateDiff(i) <= 2 THEN 200000
       ELSE IF DateDiff(i) >= 30 THEN 0
       ELSE (200000 * (30 - DateDiff(i))) \div 30)
    + (IF SameTaxId(i) THEN 150000 ELSE 0)
    + (IF TotalDiff(i).num >= TotalDiff(i).den THEN 0
       ELSE 100000 - (100000 * TotalDiff(i).num) \div TotalDiff(i).den)

\* Whether that part and 0.20 * line-item similarity / 100 make t
\* ten-thousandths: missing is what the line items must add, in
\* ten-thousandths, and the similarity is the cosine dot / sqrt(n1 * n2).
ItemsAdd(ls, missing) ==
  \/ missing <= 0
  \/ /\ missing <= 2000
     /\ ls.dot > 0
     /\ 4000000 * ls.dot * ls.dot >= missing * missing * ls.n1 * ls.n2

\* The confidences compared: every 0.005 from 0 to 1.
ConfidenceGrid == {50 * g : g \in 0..200}

\* The confidence of the entry with features f is, to a ten-thousandth, the
\* formula's value for a part without items of base millionths and a
\* line-item similarity of ls.
ConfidenceIsFormula(f, base, ls) ==
  \A t \in ConfidenceGrid :
    /\ ItemsAdd(ls, (100 * (t + 1) - base + 99) \div 100) => ConfidenceAtLeast(f, t)
    /\ ConfidenceAtLeast(f, t) => ItemsAdd(ls, (100 * (t - 1) - base + 99) \div 100)

NoDateCredit(i) ==
  \A k \in DOMAIN Report.near_duplicates :
    Report.near_duplicates[k].db_row_index = i - 1
      => LET base == ConfidenceWithoutItems(i) - 200000
             ls == LineSim(i)
         IN ConfidenceIsFormula(Report.near_duplicates[k].features, base, ls)

\* Of C25, the two passes: a record whose date difference to the candidate
\* is unknown is not emitted by the date pass, and is emitted by the
\* invoice-number pass only on the strength of its line items or tax ID.
UnknownDatesNotClose ==
  Screened
    => \A i \in Rows :
         DateDiff(i) = NaNDays
           => /\ ~Emitted(i, "Dates and totals very close")
              /\ Emitted(i, "Invoice number nearly identical and amounts match")
                   => (LineAtLeast(LineSim(i), 50) \/ SameTaxId(i))

\* C25: an unknown date difference is nowhere taken for one of zero days:
\* it corroborates nothing in the invoice-number pass, does not satisfy the
\* date pass, and earns an emitted entry no date credit in its confidence.
C25_UnknownDateNeverZero ==
  /\ UnknownDatesNotClose
  /\ Screened => \A i \in Rows : DateDiff(i) = NaNDays => NoDateCredit(i)

\* run_historical_checks has returned a report, whatever the ledger file.
Returned ==
  pc = "save" /\ Report.status = "returned" /\ Report.overall_flag # "PARSE_ERROR"

\* C26 as stated: the flag of every report returned is one of six values.
C26_FlagOfSix ==
  Returned
    => Report.overall_flag \in
         {"CLEAN", "EXACT_DUPLICATE", "HIGH_RISK_NEAR_DUPLICATE",
          "MEDIUM_RISK_POSSIBLE_DUPLICATE", "LOW_RISK_RECHECK",
          "POTENTIAL_GHOST_INVOICE"}

\* C26, amended: the flag of every report returned is one of eight values,
\* the six and PRICE_ANOMALY and ERROR; it is PRICE_ANOMALY when price
\* anomalies are all that was found, and ERROR exactly when reading the
\* ledger failed.
C26_FlagOfEight ==
  Returned
    => /\ Report.overall_flag \in
            {"CLEAN", "EXACT_DUPLICATE", "HIGH_RISK_NEAR_DUPLICATE",
             "MEDIUM_RISK_POSSIBLE_DUPLICATE", "LOW_RISK_RECHECK",
             "POTENTIAL_GHOST_INVOICE", "PRICE_ANOMALY", "ERROR"}
       /\ (Report.line_item_price_anomalies # <<>> /\ Report.near_duplicates = <<>>)
            => Report.overall_flag = "PRICE_ANOMALY"
       /\ Report.overall_flag = "ERROR" <=> HasReason("Failed to read historical data")

\* A report of price anomalies and nothing else.
C26_Witness ==
  /\ Returned
  /\ Report.line_item_price_anomalies # <<>>
  /\ Report.near_duplicates = <<>>
  /\ Report.ghost_signals = <<>>
  /\ Report.overall_flag = "PRICE_ANOMALY"

\* The reasons of the report come last among the flags main collected.
ReasonsCollected ==
  /\ Len(all_flags) >= Len(Report.reasons)
  /\ SubSeq(all_flags, Len(all_flags) - Len(Report.reasons) + 1, Len(all_flags))
       = Report.reasons

\* C27: a report returned with a flag other than CLEAN has at least one
\* reason, main has collected its reasons among the flags of the file, and
\* so the save that follows goes to the flagged file and leaves the clean
\* ledger as it was.
C27_FlaggedHasReasons ==
  (Returned /\ Report.overall_flag # "CLEAN")
    => /\ Report.reasons # <<>>
       /\ ReasonsCollected
       /\ all_flags # <<>>
       /\ ENABLED SaveResult
       /\ ~ ENABLED (SaveResult /\ ledger' # ledger)

\* A ghost report on a non-empty ledger, about to be saved as flagged.
C27_Witness ==
  /\ Returned
  /\ Report.overall_flag = "POTENTIAL_GHOST_INVOICE"
  /\ Report.reasons = Report.ghost_signals
  /\ all_flags = Report.reasons
  /\ ledger # <<>>

\* What run_historical_checks gives for a file against every record
\* appended to the ledger so far, each read as a record.
AgainstEveryRecord(data, readable) ==
  run_historical_checks(data, fileExists, ledger # <<>> \/ hasHeader, ledger, readable)

\* The step screens one file: the report it leaves is the one
\* run_historical_checks gives for that file against every record of the
\* ledger as it is before the step.
ScreensAgainstLedger ==
  \/ historical_findings'.overall_flag = "PARSE_ERROR"
  \/ \E readable \in BOOLEAN :
       LET findings == AgainstEveryRecord(parsed_data', readable)
       IN IF findings.status = "raised"
          THEN historical_findings'.overall_flag = "CRITICAL_ERROR"
          ELSE historical_findings' = findings

\* The step ends one file: the ledger gains the row of that file when no
\* flag was collected for it, and is left as it was otherwise.
EndsFile ==
  /\ pc' = "idle"
  /\ processed' = processed + 1
  /\ ledger' = IF pc = "save" /\ all_flags = <<>>
               THEN Append(ledger, _get_row_data(parsed_data))
               ELSE ledger

\* C28: the files of a batch are handled one after another. A screening
\* starts only when no file is in hand, leaves the ledger alone and is made
\* against the whole ledger of that moment; the only step possible after it
\* is the end of that same file, which appends its row at the end of the
\* ledger when it was judged clean. So each file is screened against the
\* earlier records plus the earlier clean files of the batch, in the order
\* they were handled.
C28_OneFileAtATime ==
  [][IF pc = "idle"
     THEN /\ pc' # "idle"
          /\ parsed_data' \in uploads
          /\ ledger' = ledger
          /\ processed' = processed
          /\ ScreensAgainstLedger
     ELSE EndsFile]_vars

\* Ledger record i is the row save_to_clean_csv wrote for the invoice that
\* is now the candidate.
SavedFromCandidate(i) == ledger[i] = _get_row_data(parsed_data)

\* C29: the fingerprint of a record loaded from the ledger is the
\* fingerprint of the invoice it was saved from, so an invoice that is
\* submitted again after it was saved as clean is reported EXACT_DUPLICATE.
C29_FingerprintRoundTrip ==
  Screened
    => \A i \in Rows :
         SavedFromCandidate(i)
           => /\ SameFingerprint(i)
              /\ Report.overall_flag = "EXACT_DUPLICATE"

\* C29 for invoices whose four key fields read back as they were written:
\* texts that are not numerals, and a total that is a number.
C29_FingerprintRoundTripOfTexts ==
  Screened
    => \A i \in Rows :
         (SavedFromCandidate(i) /\ SameFourFields(i))
           => /\ SameFingerprint(i)
              /\ Report.overall_flag = "EXACT_DUPLICATE"

\* No ledger record has two entries among the near duplicates of the report.
OneEntryPerRecord ==
  \A a, b \in DOMAIN Report.near_duplicates :
    Report.near_duplicates[a].db_row_index = Report.near_duplicates[b].db_row_index
      => a = b

\* No reason comes twice in the report.
NoReasonTwice ==
  \A a, b \in DOMAIN Report.reasons :
    Report.reasons[a] = Report.reasons[b] => a = b

\* C30: in every report returned, each ledger record has at most one entry
\* in near_duplicates and no reason is repeated.
C30_NoRepeats == Returned => (OneEntryPerRecord /\ NoReasonTwice)

\* C30, the part about the records alone.
C30_OneEntryPerRecord == Returned => OneEntryPerRecord

\* C30, the part about the reasons alone.
C30_NoReasonTwice == Returned => NoReasonTwice

====
